---------------------------- MODULE Spec2Model ----------------------------
(***************************************************************************)
(* A model of aircbot's LLM gateway: LLMHandler (llm_handler.py), its      *)
(* response validator and fallback predicate, the persisted daily quota    *)
(* of the remote provider (openai_rate_limiter.py), and the embedding      *)
(* cache of SemanticSimilarityScorer (semantic_similarity.py); and the     *)
(* command rate limiter (rate_limiter.py) with the message handlers of     *)
(* the bot that consult it (bot.py).                                       *)
(*                                                                         *)
(* Texts are TLA+ strings.  The source's non-ASCII characters are written  *)
(* with one-character ASCII stand-ins: "#" for the cross mark U+274C, "@"  *)
(* for the no-entry sign U+1F6AB, "*" for the bullet U+2022 and "~" for    *)
(* the backtick.                                                           *)
(***************************************************************************)
EXTENDS Integers, Sequences, FiniteSets, TLC

(***************************************************************************)
(* Python string primitives                                                *)
(***************************************************************************)
CharAt(s, i) == SubSeq(s, i, i)

StartsWith(s, p) == Len(p) <= Len(s) /\ SubSeq(s, 1, Len(p)) = p

EndsWith(s, p) == Len(p) <= Len(s) /\ SubSeq(s, Len(s) - Len(p) + 1, Len(s)) = p

\* `p in s`
Contains(s, p) == \E i \in 1..(Len(s) - Len(p) + 1) : SubSeq(s, i, i + Len(p) - 1) = p

\* s.find(p, from) with 1-based positions; 0 when p does not occur
Find(s, p, from) ==
    LET hits == {i \in from..(Len(s) - Len(p) + 1) : SubSeq(s, i, i + Len(p) - 1) = p}
    IN  IF hits = {} THEN 0 ELSE CHOOSE i \in hits : \A j \in hits : i <= j

IsSpace(c) == c \in {" ", "\n"}

IsDigit(c) == c \in {"0", "1", "2", "3", "4", "5", "6", "7", "8", "9"}

UpperChars == "ABCDEFGHIJKLMNOPQRSTUVWXYZ"

LowerChars == "abcdefghijklmnopqrstuvwxyz"

LowerChar(c) ==
    LET hits == {i \in 1..Len(UpperChars) : CharAt(UpperChars, i) = c}
    IN  IF hits = {} THEN c ELSE CharAt(LowerChars, CHOOSE i \in hits : TRUE)

\* \w of Python's re for the ASCII texts of the model
IsWordChar(c) == \/ IsDigit(c)
                 \/ c = "_"
                 \/ \E i \in 1..Len(LowerChars) : CharAt(LowerChars, i) = LowerChar(c)

RECURSIVE Lower(_)
\* s.lower()
Lower(s) == IF s = "" THEN "" ELSE LowerChar(CharAt(s, 1)) \o Lower(Tail(s))

RECURSIVE LStrip(_)
LStrip(s) == IF s # "" /\ IsSpace(CharAt(s, 1)) THEN LStrip(Tail(s)) ELSE s

RECURSIVE RStrip(_)
RStrip(s) == IF s # "" /\ IsSpace(CharAt(s, Len(s)))
             THEN RStrip(SubSeq(s, 1, Len(s) - 1)) ELSE s

\* s.strip()
Strip(s) == RStrip(LStrip(s))

RECURSIVE CountSub(_, _)
\* s.count(p): non-overlapping occurrences, left to right
CountSub(s, p) ==
    LET i == Find(s, p, 1)
    IN  IF i = 0 THEN 0 ELSE 1 + CountSub(SubSeq(s, i + Len(p), Len(s)), p)

RECURSIVE SplitWords(_)
\* s.split(): the whitespace-separated words of s, as a sequence of strings
SplitWords(s) ==
    LET t == LStrip(s)
        ends == {i \in 1..Len(t) : IsSpace(CharAt(t, i))}
        e == IF ends = {} THEN Len(t) + 1 ELSE CHOOSE i \in ends : \A j \in ends : i <= j
    IN  IF t = "" THEN <<>>
        ELSE <<SubSeq(t, 1, e - 1)>> \o SplitWords(SubSeq(t, e, Len(t)))

WordCount(s) == Len(SplitWords(s))

(***************************************************************************)
(* prompts.py: the fixed messages                                          *)
(***************************************************************************)
llm_unavailable == "# LLM is not available"

\* get_error_message('llm_error', str(e)); the detail is the exception's text
llm_error(detail) == "# Error calling LLM: " \o detail

too_complex == "That's too complicated to answer here"

no_response == "I'm not sure how to respond to that."

openai_limit_reached ==
    "@ Daily OpenAI usage limit reached. Try again tomorrow or ask something simpler for local AI."

IRC_NICKNAME == "aircbot"

get_name_response(bot_name) == "I'm " \o bot_name \o "!"

(***************************************************************************)
(* LLMHandler.validate_response_length                                    *)
(***************************************************************************)
RECURSIVE RemoveClosedThink(_)
\* re.sub(r'<think>.*?</think>', '', response, flags=re.DOTALL)
RemoveClosedThink(s) ==
    LET i == Find(s, "<think>", 1)
        j == IF i = 0 THEN 0 ELSE Find(s, "</think>", i + 7)
    IN  IF i = 0 \/ j = 0 THEN s
        ELSE SubSeq(s, 1, i - 1) \o RemoveClosedThink(SubSeq(s, j + 8, Len(s)))

\* if '<think>' in clean_response: clean_response = clean_response.split('<think>')[0]
CutUnclosedThink(s) ==
    LET i == Find(s, "<think>", 1)
    IN  IF i = 0 THEN s ELSE SubSeq(s, 1, i - 1)

\* the length of the match of r'</?think[^>]*>' (IGNORECASE) at position i, 0 if none
TagMatchLen(s, i) ==
    LET k == IF i < Len(s) /\ CharAt(s, i + 1) = "/" THEN i + 2 ELSE i + 1
        close == Find(s, ">", k + 5)
    IN  IF CharAt(s, i) = "<" /\ k + 4 <= Len(s)
           /\ Lower(SubSeq(s, k, k + 4)) = "think" /\ close # 0
        THEN close - i + 1 ELSE 0

RECURSIVE RemoveTagArtifacts(_)
\* re.sub(r'</?think[^>]*>', '', clean_response, flags=re.IGNORECASE)
RemoveTagArtifacts(s) ==
    LET hits == {i \in 1..Len(s) : TagMatchLen(s, i) > 0}
        i == CHOOSE h \in hits : \A g \in hits : h <= g
    IN  IF hits = {} THEN s
        ELSE SubSeq(s, 1, i - 1)
                 \o RemoveTagArtifacts(SubSeq(s, i + TagMatchLen(s, i), Len(s)))

\* lines 747-759: the markup-stripping steps and the trim
CleanResponse(response) ==
    Strip(RemoveTagArtifacts(CutUnclosedThink(RemoveClosedThink(response))))

\* len(re.findall(r'(?<!\d)\.', s))
PeriodCount(s) ==
    Cardinality({i \in 1..Len(s) :
        CharAt(s, i) = "." /\ ~(i > 1 /\ IsDigit(CharAt(s, i - 1)))})

\* len(re.findall(r'\d+\.', s))
NumberedItems(s) ==
    Cardinality({i \in 2..Len(s) : CharAt(s, i) = "." /\ IsDigit(CharAt(s, i - 1))})

SentenceEndings(s) == PeriodCount(s) + CountSub(s, "!") + CountSub(s, "?")

AcademicWords == {"however", "furthermore", "moreover", "specifically", "particularly"}

StrictMaxSentences == 3

StrictMaxChars == 400

LenientMaxSentences == 5

LenientMaxChars == 600

ComplexityIndicators(clean, strict) ==
    IF strict
    THEN \/ CountSub(clean, "\n") > 2
         \/ NumberedItems(clean) > 5 \/ CountSub(clean, "*") > 5
         \/ CountSub(clean, ":") > 3
         \/ \E w \in AcademicWords : Contains(Lower(clean), w)
    ELSE \/ CountSub(clean, "\n") > 4
         \/ NumberedItems(clean) > 8 \/ CountSub(clean, "*") > 8
         \/ CountSub(clean, ":") > 5

validate_response_length(response, strict) ==
    LET clean == CleanResponse(response)
        max_sentences == IF strict THEN StrictMaxSentences ELSE LenientMaxSentences
        max_chars == IF strict THEN StrictMaxChars ELSE LenientMaxChars
    IN  IF clean = "" THEN no_response
        ELSE IF SentenceEndings(clean) > max_sentences \/ Len(clean) > max_chars
             THEN too_complex
        ELSE IF ComplexityIndicators(clean, strict) THEN too_complex
        ELSE clean

(***************************************************************************)
(* config.py: the thresholds of the fallback predicate.  The ratios are    *)
(* kept in hundredths (0.05 is 5) so that the comparisons are on integers. *)
(***************************************************************************)
FALLBACK_MIN_RESPONSE_LENGTH == 3

FALLBACK_DONT_KNOW_CONTEXT_MIN_WORDS == 15

FALLBACK_RELEVANCE_MIN_RATIO == 5

FALLBACK_RELEVANCE_MIN_QUESTION_WORDS == 3

FALLBACK_TYPE_MISMATCH_MIN_RATIO == 10

FALLBACK_TYPE_MISMATCH_MIN_QUESTION_WORDS == 5

FALLBACK_GENERIC_RESPONSE_MAX_WORDS == 25

FALLBACK_REPETITION_MAX_WORD_RATIO == 30

FALLBACK_REPETITION_MIN_WORD_LENGTH == 3

FALLBACK_EXPLANATION_MIN_WORDS == 8

FALLBACK_PROCEDURAL_SHORT_ANSWER_MAX_WORDS == 15

FALLBACK_CODE_SHORT_ANSWER_MAX_WORDS == 10

LogicalInconsistencyMaxWords == 50

GenericStartChars == 100

RepetitionMinWords == 10

(***************************************************************************)
(* More string primitives                                                  *)
(***************************************************************************)
RECURSIVE Join(_)
\* ' '.join(words)
Join(words) ==
    IF words = <<>> THEN ""
    ELSE IF Len(words) = 1 THEN words[1]
    ELSE words[1] \o " " \o Join(Tail(words))

RECURSIVE SplitOn(_, _)
\* s.split(c) for a one-character separator c
SplitOn(s, c) ==
    LET i == Find(s, c, 1)
    IN  IF i = 0 THEN <<s>>
        ELSE <<SubSeq(s, 1, i - 1)>> \o SplitOn(SubSeq(s, i + 1, Len(s)), c)

RECURSIVE ReplaceChar(_, _, _)
\* s.replace(a, b) for one-character a and b
ReplaceChar(s, a, b) ==
    IF s = "" THEN ""
    ELSE (IF CharAt(s, 1) = a THEN b ELSE CharAt(s, 1)) \o ReplaceChar(Tail(s), a, b)

RECURSIVE KeepWordChars(_)
\* re.sub(r'[^\w]', '', word)
KeepWordChars(s) ==
    IF s = "" THEN ""
    ELSE (IF IsWordChar(CharAt(s, 1)) THEN CharAt(s, 1) ELSE "") \o KeepWordChars(Tail(s))

\* s[:n]
Prefix(s, n) == SubSeq(s, 1, IF Len(s) < n THEN Len(s) ELSE n)

(***************************************************************************)
(* LLMHandler.has_poor_semantic_coherence and its three checks            *)
(***************************************************************************)
EnumeratorWords == {"example", "option", "step", "item", "point"}

has_excessive_repetition(response) ==
    LET words == SplitWords(Lower(response))
        n == Len(words)
        meaningful == {i \in 1..n : Len(words[i]) > 3}
        count(w) == Cardinality({i \in meaningful : words[i] = w})
        total == Cardinality(meaningful)
    IN  IF n < RepetitionMinWords THEN FALSE
        ELSE \/ /\ total > 0
                /\ \E i \in meaningful :
                       count(words[i]) * 100 > FALLBACK_REPETITION_MAX_WORD_RATIO * total
             \/ \E i \in 1..(n - 5) :
                    Contains(Join(SubSeq(words, i + 3, n)), Join(SubSeq(words, i, i + 2)))
             \/ \E i \in 1..(n - 2) :
                    /\ words[i] = words[i + 1] /\ words[i + 1] = words[i + 2]
                    /\ Len(words[i]) > FALLBACK_REPETITION_MIN_WORD_LENGTH
                    /\ ~ \E legitimate \in EnumeratorWords : Contains(words[i], legitimate)

DanglingEndings == {" the", " a", " an", " and", " or", " but", " with", " for", " to", " of"}

LeadingConjunctions == {"and", "but", "or", "because", "so", "then"}

has_broken_structure(sentences) ==
    \E k \in 1..Len(sentences) :
        LET sentence == sentences[k]
            words == SplitWords(sentence)
        IN  /\ Len(Strip(sentence)) >= 3
            /\ Len(words) >= 3
            /\ \/ \E e \in DanglingEndings : EndsWith(sentence, e)
               \/ Lower(words[1]) \in LeadingConjunctions /\ Len(sentences) < 3

contradiction_pairs ==
    << <<{"can", "able", "possible"}, {"cannot", "unable", "impossible"}>>,
       <<{"is", "are", "does"},
         {"is not", "are not", "does not", "isn't", "aren't", "doesn't"}>>,
       <<{"always", "never"}, {"sometimes", "maybe", "might"}>>,
       <<{"yes", "true", "correct"}, {"no", "false", "incorrect", "wrong"}>> >>

has_logical_inconsistencies(sentences) ==
    LET response_lower == Lower(Join(sentences))
    IN  \E k \in 1..Len(contradiction_pairs) :
            /\ \E term \in contradiction_pairs[k][1] : Contains(response_lower, term)
            /\ \E term \in contradiction_pairs[k][2] : Contains(response_lower, term)
            /\ WordCount(response_lower) < LogicalInconsistencyMaxWords

\* [s.strip() for s in response.replace('!', '.').replace('?', '.').split('.') if s.strip()]
Sentences(response) ==
    LET parts == SplitOn(ReplaceChar(ReplaceChar(response, "!", "."), "?", "."), ".")
    IN  SelectSeq([i \in 1..Len(parts) |-> Strip(parts[i])], LAMBDA p : p # "")

has_poor_semantic_coherence(response) ==
    IF response = "" THEN TRUE
    ELSE IF has_excessive_repetition(response) THEN TRUE
    ELSE IF Len(Sentences(response)) < 2 THEN FALSE
    ELSE \/ has_broken_structure(Sentences(response))
         \/ has_logical_inconsistencies(Sentences(response))

(***************************************************************************)
(* LLMHandler.is_response_relevant and its helpers                        *)
(***************************************************************************)
stop_words ==
    {"the", "a", "an", "and", "or", "but", "in", "on", "at", "to", "for", "of", "with",
     "by", "how", "what", "when", "where", "why", "is", "are", "was", "were", "do",
     "does", "did", "can", "could", "should", "would", "will"}

identify_question_type(question) ==
    IF \E w \in {"how", "explain", "describe", "what is", "what does"} : Contains(question, w)
    THEN "explanation"
    ELSE IF \E w \in {"code", "implement", "write", "create", "build"} : Contains(question, w)
    THEN "code"
    ELSE IF \E w \in {"list", "steps", "process", "procedure"} : Contains(question, w)
    THEN "procedural"
    ELSE IF \E w \in {"why", "reason", "because"} : Contains(question, w)
    THEN "reasoning"
    ELSE "general"

code_indicators ==
    {"~~~", "def ", "function", "class ", "import ", "return", "{", "}", "()", "def(",
     "print(", "for ", "while ", "if ", "loop", "select", "update", "insert", "delete",
     "var ", "let ", "const ", "=", "git ", "npm ", "pip ", "docker", "kubectl", "mysql",
     "postgres", "redis", "api", "json", "xml", "http", "https", "tcp", "udp", "ssh", "ftp"}

procedural_indicators ==
    {"1.", "2.", "first", "second", "then", "next", "step", "process", "install",
     "configure", "setup", "run", "execute", "deploy", "build", "test", "check", "verify"}

response_matches_question_type(question_type, response) ==
    CASE question_type = "code" ->
           \/ \E ind \in code_indicators : Contains(response, ind)
           \/ WordCount(response) < FALLBACK_CODE_SHORT_ANSWER_MAX_WORDS
      [] question_type = "procedural" ->
           \/ \E ind \in procedural_indicators : Contains(response, ind)
           \/ WordCount(response) < FALLBACK_PROCEDURAL_SHORT_ANSWER_MAX_WORDS
      [] question_type = "explanation" ->
           WordCount(response) > FALLBACK_EXPLANATION_MIN_WORDS
      [] OTHER -> TRUE

generic_patterns ==
    {"i'd be happy to help", "here's some information", "let me help you with that",
     "that's a great question", "i understand you're asking about",
     "this is a common question"}

\* no response taken for a generic one
is_generic_response_never(response) == FALSE

is_generic_response(response) ==
    /\ \E p \in generic_patterns : Contains(Lower(Prefix(response, GenericStartChars)), p)
    /\ WordCount(response) < FALLBACK_GENERIC_RESPONSE_MAX_WORDS

\* the question's words of 3 or more word characters that are not stop words
QuestionWords(question_lower) ==
    LET raw == SplitWords(question_lower)
        cleaned == [i \in 1..Len(raw) |-> KeepWordChars(raw[i])]
    IN  SelectSeq(cleaned, LAMBDA w : Len(w) >= 3 /\ w \notin stop_words)

is_response_relevant(question, response) ==
    LET question_lower == Lower(question)
        response_lower == Lower(response)
        question_words == QuestionWords(question_lower)
        n == Len(question_words)
        keyword_matches ==
            Cardinality({i \in 1..n : Contains(response_lower, question_words[i])})
    IN  IF question = "" \/ response = "" THEN FALSE
        ELSE IF n = 0 THEN TRUE
        ELSE IF /\ keyword_matches * 100 < FALLBACK_RELEVANCE_MIN_RATIO * n
                /\ n > FALLBACK_RELEVANCE_MIN_QUESTION_WORDS
             THEN FALSE
        ELSE IF /\ ~ response_matches_question_type(
                        identify_question_type(question_lower), response_lower)
                /\ keyword_matches * 100 < FALLBACK_TYPE_MISMATCH_MIN_RATIO * n
                /\ n > FALLBACK_TYPE_MISMATCH_MIN_QUESTION_WORDS
             THEN FALSE
        ELSE IF /\ is_generic_response(response_lower)
                /\ WordCount(response) < FALLBACK_GENERIC_RESPONSE_MAX_WORDS
             THEN FALSE
        ELSE TRUE

(***************************************************************************)
(* LLMHandler.is_fallback_response.  `semantic` is the outcome of         *)
(* config.SEMANTIC_SIMILARITY_ENABLED and scorer.is_available() and        *)
(* scorer.should_fallback(question, response, context): the embedding      *)
(* model is outside the program, so its verdict is an input.               *)
(***************************************************************************)
error_responses == {llm_unavailable, no_response, too_complex}

dont_know_patterns ==
    {"i don't know", "i'm not sure", "i can't help", "i don't have information",
     "sorry, i don't", "i'm unable to", "i cannot provide"}

\* the step of the cascade that decides: 0 when the response is accepted
FallbackStep(response, question, semantic) ==
    LET response_lower == Lower(response)
    IN  IF response = "" THEN 1
        ELSE IF Strip(question) = "" THEN 2
        ELSE IF \E error \in error_responses : Contains(response, error) THEN 3
        ELSE IF Len(Strip(response)) < FALLBACK_MIN_RESPONSE_LENGTH THEN 4
        ELSE IF \E p \in dont_know_patterns : Contains(response_lower, p)
             THEN IF WordCount(response) > FALLBACK_DONT_KNOW_CONTEXT_MIN_WORDS THEN 0
                  ELSE IF ~ \E p \in dont_know_patterns : StartsWith(response_lower, p) THEN 0
                  ELSE 5
        ELSE IF has_poor_semantic_coherence(response) THEN 6
        ELSE IF semantic THEN 7
        ELSE IF ~ is_response_relevant(question, response) THEN 8
        ELSE 0

is_fallback_response(response, question, semantic) ==
    FallbackStep(response, question, semantic) # 0

\* the name patterns of check_for_name_question
name_patterns ==
    {"what's your name", "what is your name", "whats your name", "your name",
     "who are you", "what are you called", "what do i call you", "tell me your name"}

\* no question taken for a name question
check_for_name_question_never(question) == ""

\* the name response, or "" for None
check_for_name_question(question) ==
    IF \E p \in name_patterns : Contains(Strip(Lower(question)), p)
    THEN get_name_response(IRC_NICKNAME) ELSE ""

(***************************************************************************)
(* The gateway and the bot around it as a state machine                    *)
(***************************************************************************)
\* bounds of the model
MaxRequests == 2

MaxLimit == 2

MaxDay == 2

MaxRestarts == 1

\* the worker threads bot.handle_ask_command starts, one per !ask in flight
Threads == {1, 2}

NoThread == 0

\* the provider clients' raw answers (message.content) the model draws from
RawResponses ==
    {"", "Paris is the capital of France.", "I don't know", "Yes. No. Maybe. Sure.",
     "A. B. C. D. E. F.", "<think>hm</think>"}

\* the questions users ask
Questions == {"what is the capital of france", "what's your name?", ""}

\* str(e) of the exception a provider call raises
ExceptionDetail == "Connection error."

\* what one client.chat.completions.create call does: it raises, or returns raw text
ProviderOutcomes ==
    {[exc |-> TRUE, raw |-> ""]} \cup {[exc |-> FALSE, raw |-> r] : r \in RawResponses}

\* the elapsed time.time() difference of a call, abstracted to one value
Latencies == {1}

LLM_RETRY_ATTEMPTS == 3

OPENAI_ATTEMPTS == 2

RESPONSE_TIMES_KEPT == 100

Providers == {"local", "openai"}

\* Python's None as a return value
None == "<None>"

\* config.SEMANTIC_CACHE_SIZE, kept small
SEMANTIC_CACHE_SIZE == 2

\* get_embedding and provider calls started in a run
MaxOps == 4

\* latency samples recorded per provider in a run: the history of 100 fills up and
\* then loses its two oldest entries
MaxSamples == 102

\* provider calls per provider that fail in such a run
MaxFailures == 1

\* the nicks that send messages
Users == {"alice", "bob"}

\* config.py's defaults of the two limits
RATE_LIMIT_USER_PER_MINUTE == 1

RATE_LIMIT_TOTAL_PER_MINUTE == 10

\* RateLimiter.window_size, in seconds
window_size == 60

\* how far the clock moves between two messages, in seconds: a moment, or just
\* under a window
TimeSteps == {1, 59}

\* the largest RATE_LIMIT_USER_PER_MINUTE tried; RATE_LIMIT_TOTAL_PER_MINUTE goes
\* one further
MaxUserLimit == 2

\* is_allowed calls, and moves of the clock, in a run
MaxCalls == 5

MaxTicks == 3

\* messages the bot receives in a run
MaxMessages == 3

\* the texts get_embedding is called on
EmbeddingTexts == {"Paris", " paris", "rome", "oslo"}

\* text_key = text.strip().lower()
cache_key(text) == Lower(Strip(text))

\* self.model.encode([text])[0], for the default model all-MiniLM-L6-v2, whose
\* tokenizer lower-cases its input and drops the blanks around it: the
\* embedding is told by the tokens it was made from
model_encode(text) == "embedding of " \o Lower(Strip(text))

EmbeddingKeys == {cache_key(text) : text \in EmbeddingTexts}

VARIABLES
    \* LLMHandler.__init__ / _initialize_clients
    mode, local_client, openai_client, daily_limit, semantic_on,
    \* the process: usage counters of the running LLMHandler
    total_requests, failed_requests, response_times, semantic_fallbacks,
    \* the sqlite table openai_usage (date -> call_count), its write lock, the clock
    openai_usage, db_writer, today,
    \* one ask request per thread: where it is, and its locals
    pc, asked, attempt, local_result, pending, result, sel, rec_date,
    \* history kept for the properties
    started, outcomes, flagged, openai_ret, rec_entry, remote_calls_on, records_here,
    records_earlier, restarts,
    \* one call of a function of the response-quality gate, and what it returned
    fn_call, fn_value,
    \* SemanticSimilarityScorer: the embedding cache, oldest entry first, and its
    \* counters
    embedding_cache, cache_hits, cache_misses,
    \* one get_embedding or provider call per thread: where it is, its cache key,
    \* the counter value it read, and the counter it is about to write
    scorer_pc, text_key, loaded, counting,
    \* config.SEMANTIC_CACHE_SIZE, the embedding kept under each cache key, and of
    \* each thread's get_embedding call: its text and the embedding the model
    \* made, until it returns, and what it returned
    semantic_cache_size, cache_embedding, lookup_text, embedding, embedding_ret,
    \* history kept for the properties
    ops, lookups_returned, calls_done, ticks, last_access,
    \* history kept for the properties: every response time recorded for a
    \* provider, oldest first
    latencies_recorded,
    \* time.time(), in seconds
    now,
    \* AircBot.rate_limiter: its two limits, user_requests (nick -> timestamps,
    \* oldest first) and total_requests (timestamps, oldest first)
    rate_limiter,
    \* config.PRIVATE_MSG_ENABLED
    private_msg_enabled,
    \* history kept for the properties: the requests is_allowed admitted, the
    \* number of is_allowed calls and of clock moves, the last is_allowed call, and
    \* the last message the bot received with what became of it
    admitted, checks, clock_ticks, last_call, inbound

config_vars == <<mode, local_client, openai_client, daily_limit, semantic_on>>

counter_vars == <<total_requests, failed_requests, response_times, semantic_fallbacks>>

store_vars == <<openai_usage, db_writer, today>>

local_vars == <<pc, asked, attempt, local_result, pending, result, sel, rec_date>>

history_vars ==
    <<started, outcomes, flagged, openai_ret, rec_entry, remote_calls_on, records_here,
      records_earlier, restarts>>

fn_vars == <<fn_call, fn_value>>

cache_vars == <<embedding_cache, cache_hits, cache_misses, cache_embedding>>

embed_vars == <<semantic_cache_size, lookup_text, embedding, embedding_ret>>

scorer_vars ==
    <<cache_vars, embed_vars, scorer_pc, text_key, loaded, counting, ops,
      lookups_returned, calls_done, ticks, last_access>>

limiter_vars ==
    <<now, rate_limiter, private_msg_enabled, admitted, checks, clock_ticks, last_call,
      inbound>>

window_vars == <<latencies_recorded, limiter_vars>>

\* the state outside the request path
apart_vars == <<fn_vars, scorer_vars, window_vars>>

\* the state of the gateway
handler_vars ==
    <<config_vars, counter_vars, store_vars, local_vars, history_vars, fn_vars,
      scorer_vars, latencies_recorded>>

vars == <<config_vars, counter_vars, store_vars, local_vars, history_vars, apart_vars>>

Days == 1..MaxDay

NoOutcomes == [p \in Providers |-> <<>>]

(***************************************************************************)
(* OpenAIRateLimiter                                                       *)
(***************************************************************************)
\* SELECT call_count FROM openai_usage WHERE date = ?  (0 when there is no row)
get_usage(date) == IF date \in DOMAIN openai_usage THEN openai_usage[date] ELSE 0

get_today_usage == get_usage(today)

\* the comparison off by one: a request is allowed at usage = limit
can_make_request_inclusive ==
    IF daily_limit <= 0 THEN TRUE ELSE get_today_usage <= daily_limit

\* the limit never consulted
can_make_request_unlimited == TRUE

can_make_request ==
    IF daily_limit <= 0 THEN TRUE ELSE get_today_usage < daily_limit

get_usage_stats ==
    [today_usage |-> get_today_usage,
     daily_limit |-> daily_limit,
     remaining   |-> IF daily_limit > 0
                     THEN (IF daily_limit - get_today_usage > 0
                           THEN daily_limit - get_today_usage ELSE 0)
                     ELSE "unlimited",
     date        |-> today]

\* no write lock: the sub-select and the write of two connections interleave
db_write_lock_ignored == TRUE

\* sqlite lets one connection at a time hold the write lock of the database file
db_write_lock_free == db_writer = NoThread

\* INSERT OR REPLACE INTO openai_usage (date, call_count) VALUES (?, COALESCE(..., 0) + 1)
upsert(date, selected) ==
    [d \in (DOMAIN openai_usage) \cup {date} |->
        IF d = date THEN selected + 1 ELSE openai_usage[d]]

\* a counter kept in memory only: a new process starts from nothing
store_after_restart_empty == <<>>

\* what a new process finds in the database file
store_after_restart == openai_usage

(***************************************************************************)
(* SemanticSimilarityScorer.  The embedding model is outside the program:  *)
(* what it would say is an input (`verdict`, `score`).                     *)
(***************************************************************************)
\* config.SEMANTIC_SIMILARITY_ENABLED and model_loaded and model is not None
is_available == semantic_on

\* the scores of the embedding model, in hundredths
SimilarityScores == {0, 50, 100}

\* the availability check dropped
should_fallback_unguarded(verdict) == verdict

\* should_fallback: False when unavailable, else whether the combined score is
\* below the threshold
should_fallback(verdict) == IF ~is_available THEN FALSE ELSE verdict

\* compute_similarity: 0.0 when unavailable, else the cosine similarity
compute_similarity(score) == IF ~is_available THEN 0 ELSE score

(***************************************************************************)
(* LLMHandler                                                              *)
(***************************************************************************)
is_enabled ==
    CASE mode = "local_only" -> local_client
      [] mode = "openai_only" -> openai_client
      [] mode = "fallback" -> local_client \/ openai_client
      [] OTHER -> FALSE

\* line 615: strict validation unless a local answer can still escalate
use_strict_validation(client_type) ==
    ~(mode = "fallback" /\ client_type = "local" /\ openai_client)

\* the entry of a table of pairs <<argument, value>>
At(table, key) == (CHOOSE entry \in table : entry[1] = key)[2]

\* the validator's verdicts for the raw answers, computed once
ValidatedTable ==
    {<<<<r, strict>>, validate_response_length(Strip(r), strict)>> :
        r \in RawResponses, strict \in BOOLEAN}

\* line 602: `not raw_answer or not raw_answer.strip()`, computed once
EmptyTable == {<<r, Strip(r) = "">> : r \in RawResponses}

IsEmptyRaw(o) == ~o.exc /\ At(EmptyTable, o.raw)

\* _check_for_name_question for the questions, computed once
NameTable == {<<q, check_for_name_question(q)>> : q \in Questions}

\* an empty answer reported as no_response instead of None: no retry follows
make_llm_request_no_retry(client_type, o) ==
    IF o.exc THEN llm_error(ExceptionDetail)
    ELSE IF IsEmptyRaw(o) THEN no_response
    ELSE At(ValidatedTable, <<o.raw, use_strict_validation(client_type)>>)

\* a rejected answer reported as None, like an empty one: the caller retries
make_llm_request_retry_rejected(client_type, o) ==
    LET validated == At(ValidatedTable, <<o.raw, use_strict_validation(client_type)>>)
    IN  IF o.exc THEN llm_error(ExceptionDetail)
        ELSE IF IsEmptyRaw(o) \/ validated \in {no_response, too_complex} THEN None
        ELSE validated

\* the value _make_llm_request returns for a provider outcome
make_llm_request(client_type, o) ==
    IF o.exc THEN llm_error(ExceptionDetail)
    ELSE IF IsEmptyRaw(o) THEN None
    ELSE At(ValidatedTable, <<o.raw, use_strict_validation(client_type)>>)

\* the history cut at its old end: a sample arriving at a full history is dropped
append_response_time_keep_oldest(times, t) ==
    LET all == Append(times, t)
    IN  IF Len(all) > RESPONSE_TIMES_KEPT THEN SubSeq(all, 1, RESPONSE_TIMES_KEPT) ELSE all

\* lines 619-635: keep only the last 100 response times
append_response_time(times, t) ==
    LET all == Append(times, t)
    IN  IF Len(all) > RESPONSE_TIMES_KEPT
        THEN SubSeq(all, Len(all) - RESPONSE_TIMES_KEPT + 1, Len(all)) ELSE all

\* an exception that leaves the counters as they were
counters_after_raise_uncounted(client_type, o, latency) ==
    IF o.exc
    THEN UNCHANGED <<total_requests, failed_requests, response_times>>
    ELSE IF IsEmptyRaw(o)
    THEN /\ failed_requests' = [failed_requests EXCEPT ![client_type] = @ + 1]
         /\ UNCHANGED <<total_requests, response_times>>
    ELSE /\ total_requests' = [total_requests EXCEPT ![client_type] = @ + 1]
         /\ response_times' = [response_times EXCEPT
                ![client_type] = append_response_time(@, latency)]
         /\ UNCHANGED failed_requests

\* an answer the validator rejected counted as a failure, without a sample
counters_after_rejected_as_failed(client_type, o, latency) ==
    IF \/ o.exc
       \/ IsEmptyRaw(o)
       \/ At(ValidatedTable, <<o.raw, use_strict_validation(client_type)>>)
              \in {no_response, too_complex}
    THEN /\ failed_requests' = [failed_requests EXCEPT ![client_type] = @ + 1]
         /\ UNCHANGED <<total_requests, response_times>>
    ELSE /\ total_requests' = [total_requests EXCEPT ![client_type] = @ + 1]
         /\ response_times' = [response_times EXCEPT
                ![client_type] = append_response_time(@, latency)]
         /\ UNCHANGED failed_requests

\* the counters after _make_llm_request: a failure for an exception or an empty
\* answer, a request and a latency sample for any other answer.  The update is
\* one step here; provider_call and count_call take the `+= 1` apart
counters_after(client_type, o, latency) ==
    IF o.exc \/ IsEmptyRaw(o)
    THEN /\ failed_requests' = [failed_requests EXCEPT ![client_type] = @ + 1]
         /\ UNCHANGED <<total_requests, response_times>>
    ELSE /\ total_requests' = [total_requests EXCEPT ![client_type] = @ + 1]
         /\ response_times' = [response_times EXCEPT
                ![client_type] = append_response_time(@, latency)]
         /\ UNCHANGED failed_requests

\* how the provider call ended: it raised, answered nothing, or answered text that
\* the validator turned into no_response or too_complex (line 619), or accepted
OutcomeKind(client_type, o) ==
    LET validated == At(ValidatedTable, <<o.raw, use_strict_validation(client_type)>>)
    IN  IF o.exc THEN "exception"
        ELSE IF IsEmptyRaw(o) THEN "empty"
        ELSE IF validated = no_response THEN "rejected_empty"
        ELSE IF validated = too_complex THEN "rejected_complex"
        ELSE "accepted"

\* the history entry of one provider call: how it ended and what
\* _make_llm_request returned for it
Outcome(client_type, o) ==
    [kind |-> OutcomeKind(client_type, o), value |-> make_llm_request(client_type, o)]

\* the values _ask_local can return
LocalResults ==
    {entry[2] : entry \in ValidatedTable}
        \cup {llm_error(ExceptionDetail), no_response, llm_unavailable}

\* the deciding step of _is_fallback_response for each local result, computed once
FallbackStepTable ==
    {<<<<r, q, semantic>>, FallbackStep(r, q, semantic)>> :
        r \in LocalResults, q \in Questions, semantic \in BOOLEAN}

\* Python's truth value of an Optional[str]
Truthy(r) == r # None /\ r # ""

\* the verdict of _is_fallback_response on a local result
fallback_verdict(r, q, semantic) == At(FallbackStepTable, <<r, q, semantic>>) # 0

\* the quality check dropped: any local text is good enough
local_inadequate_unchecked(r, q, semantic) == ~Truthy(r)

\* line 231: `local_result and not self._is_fallback_response(...)` is false
local_inadequate(r, q, semantic) == ~(Truthy(r) /\ ~fallback_verdict(r, q, semantic))

\* line 214: the result counts against the daily quota
counts_as_success(r) == ~StartsWith(r, "#") /\ ~StartsWith(r, "Error")

\* the values _make_llm_request can return other than None
RequestResults ==
    {entry[2] : entry \in ValidatedTable} \cup {llm_error(ExceptionDetail)}

SuccessTable == {<<r, counts_as_success(r)>> : r \in RequestResults}

\* no function of the gate called on its own
NoCall == [fn |-> "none"]

\* no message received yet
NoMessage ==
    [n |-> 0, kind |-> "none", user |-> "", private |-> FALSE, outcome |-> "none",
     slots |-> 0]

\* RateLimiter.__init__ with the two limits, and the bot before its first message
InitLimiter(user_limit, total_limit, private_enabled) ==
    /\ now = 0
    /\ rate_limiter = [user_limit_per_minute |-> user_limit,
                       total_limit_per_minute |-> total_limit,
                       user_requests |-> <<>>,
                       total_requests |-> <<>>]
    /\ private_msg_enabled = private_enabled
    /\ admitted = <<>>
    /\ checks = 0
    /\ clock_ticks = 0
    /\ last_call = NoCall
    /\ inbound = NoMessage

\* the counters of a new LLMHandler, an empty usage table, and no request yet
InitHandler ==
    /\ total_requests = [p \in Providers |-> 0]
    /\ failed_requests = [p \in Providers |-> 0]
    /\ response_times = [p \in Providers |-> <<>>]
    /\ semantic_fallbacks = 0
    /\ openai_usage = <<>>
    /\ db_writer = NoThread
    /\ today = 1
    /\ pc = [t \in Threads |-> "idle"]
    /\ asked = [t \in Threads |-> ""]
    /\ attempt = [t \in Threads |-> 0]
    /\ local_result = [t \in Threads |-> None]
    /\ pending = [t \in Threads |-> None]
    /\ result = [t \in Threads |-> None]
    /\ sel = [t \in Threads |-> 0]
    /\ rec_date = [t \in Threads |-> 0]
    /\ started = 0
    /\ outcomes = [t \in Threads |-> NoOutcomes]
    /\ flagged = [t \in Threads |-> "unset"]
    /\ openai_ret = [t \in Threads |-> None]
    /\ rec_entry = [t \in Threads |-> -1]
    /\ remote_calls_on = [d \in Days |-> 0]
    /\ records_here = [d \in Days |-> 0]
    /\ records_earlier = [d \in Days |-> 0]
    /\ restarts = 0
    /\ latencies_recorded = [p \in Providers |-> <<>>]

\* a new process with the limits and the private messaging of config.py's defaults
InitProcess ==
    /\ InitHandler
    /\ InitLimiter(RATE_LIMIT_USER_PER_MINUTE, RATE_LIMIT_TOTAL_PER_MINUTE, TRUE)

\* SemanticSimilarityScorer.__init__ under a configuration with
\* SEMANTIC_CACHE_SIZE = size: an empty cache and counters at 0
InitScorerSized(size) ==
    /\ semantic_cache_size = size
    /\ cache_embedding = [k \in EmbeddingKeys |-> None]
    /\ lookup_text = [t \in Threads |-> ""]
    /\ embedding = [t \in Threads |-> None]
    /\ embedding_ret = [t \in Threads |-> <<>>]
    /\ embedding_cache = <<>>
    /\ cache_hits = 0
    /\ cache_misses = 0
    /\ scorer_pc = [t \in Threads |-> "idle"]
    /\ text_key = [t \in Threads |-> ""]
    /\ loaded = [t \in Threads |-> 0]
    /\ counting = [t \in Threads |-> <<>>]
    /\ ops = 0
    /\ lookups_returned = 0
    /\ calls_done = [p \in Providers |-> 0]
    /\ ticks = 0
    /\ last_access = [k \in EmbeddingKeys |-> 0]

InitScorer == InitScorerSized(SEMANTIC_CACHE_SIZE)

(***************************************************************************)
(* Init: a handler just constructed over a new database file.  A client    *)
(* exists only if the mode asks for it, and may be missing when it is      *)
(* disabled or could not be created.  The rate limiter is created with     *)
(* the OpenAI client.                                                      *)
(***************************************************************************)
Init ==
    /\ mode \in {"local_only", "openai_only", "fallback"}
    /\ local_client \in (IF mode \in {"local_only", "fallback"} THEN BOOLEAN ELSE {FALSE})
    /\ openai_client \in (IF mode \in {"openai_only", "fallback"} THEN BOOLEAN ELSE {FALSE})
    /\ daily_limit \in (IF openai_client THEN 0..MaxLimit ELSE {0})
    /\ semantic_on \in (IF mode = "fallback" /\ local_client THEN BOOLEAN ELSE {FALSE})
    /\ InitProcess
    /\ InitScorer
    /\ fn_call = NoCall
    /\ fn_value = <<>>

\* a loop that goes on for as long as the provider answers nothing
another_attempt_unbounded(last, budget) == TRUE

\* `for attempt in range(budget)`: after the turn with attempt = last, `continue`
\* starts another turn if range(budget) has a next value
another_attempt(last, budget) == last + 1 < budget

\* the request of thread t returns r to the bot
Return(t, r) ==
    /\ pc' = [pc EXCEPT ![t] = "done"]
    /\ result' = [result EXCEPT ![t] = r]

\* _ask_openai returns r: to ask_llm's caller (openai_only and fallback alike)
ReturnFromOpenai(t, r) ==
    /\ Return(t, r)
    /\ openai_ret' = [openai_ret EXCEPT ![t] = r]

\* the two single-provider modes sent to each other's provider
route_swapped ==
    CASE mode = "openai_only" -> "ask_local"
      [] mode = "local_only" -> "ask_openai"
      [] OTHER -> IF local_client THEN "ask_local" ELSE "ask_openai"

\* ask_llm's routing on the mode (lines 160-166); _ask_fallback starts with
\* _ask_local only if there is a local client (line 226)
route ==
    CASE mode = "openai_only" -> "ask_openai"
      [] mode = "local_only" -> "ask_local"
      [] OTHER -> IF local_client THEN "ask_local" ELSE "ask_openai"

\* bot._process_ask_request calls ask_llm(question, context) in a new thread; the
\* thread of an answered request is gone, and its slot is taken again
ask_llm(t, q) ==
    /\ pc[t] \in {"idle", "done"}
    /\ started < MaxRequests
    /\ started' = started + 1
    /\ asked' = [asked EXCEPT ![t] = q]
    /\ attempt' = [attempt EXCEPT ![t] = 0]
    /\ local_result' = [local_result EXCEPT ![t] = None]
    /\ pending' = [pending EXCEPT ![t] = None]
    /\ sel' = [sel EXCEPT ![t] = 0]
    /\ rec_date' = [rec_date EXCEPT ![t] = 0]
    /\ outcomes' = [outcomes EXCEPT ![t] = NoOutcomes]
    /\ flagged' = [flagged EXCEPT ![t] = "unset"]
    /\ openai_ret' = [openai_ret EXCEPT ![t] = None]
    /\ rec_entry' = [rec_entry EXCEPT ![t] = -1]
    /\ IF ~is_enabled THEN Return(t, llm_unavailable)
       ELSE IF At(NameTable, q) # "" THEN Return(t, At(NameTable, q))
       ELSE /\ pc' = [pc EXCEPT ![t] = route]
            /\ result' = [result EXCEPT ![t] = None]
    /\ UNCHANGED <<config_vars, counter_vars, store_vars, remote_calls_on,
                   records_here, records_earlier, restarts>>
    /\ UNCHANGED apart_vars

\* _ask_local returns r: to ask_llm's caller in mode local_only, to _ask_fallback
\* in mode fallback
ReturnFromLocal(t, r) ==
    /\ local_result' = [local_result EXCEPT ![t] = r]
    /\ IF mode = "fallback"
       THEN pc' = [pc EXCEPT ![t] = "ask_fallback"] /\ UNCHANGED result
       ELSE Return(t, r)

\* one turn of _ask_local's loop: a _make_llm_request('local', ...) and what follows
ask_local_attempt(t, o, latency) ==
    /\ pc[t] = "ask_local"
    /\ IF ~local_client
       THEN /\ ReturnFromLocal(t, llm_unavailable)
            /\ UNCHANGED <<attempt, counter_vars, outcomes>>
       ELSE /\ outcomes' = [outcomes EXCEPT ![t]["local"] = Append(@, Outcome("local", o))]
            /\ counters_after("local", o, latency)
            /\ UNCHANGED semantic_fallbacks
            /\ IF make_llm_request("local", o) # None
               THEN ReturnFromLocal(t, make_llm_request("local", o)) /\ UNCHANGED attempt
               ELSE IF another_attempt(attempt[t], LLM_RETRY_ATTEMPTS)
               THEN /\ attempt' = [attempt EXCEPT ![t] = @ + 1]
                    /\ UNCHANGED <<pc, result, local_result>>
               ELSE ReturnFromLocal(t, no_response) /\ UNCHANGED attempt
    /\ UNCHANGED <<config_vars, store_vars, asked, pending, sel, rec_date, started,
                   flagged, openai_ret, rec_entry, remote_calls_on, records_here,
                   records_earlier, restarts>>
    /\ UNCHANGED apart_vars

\* lines 243-246: neither provider gave a satisfactory answer and no remote client
\* is left to ask
no_remote_result(t) == IF local_client THEN local_result[t] ELSE llm_unavailable

\* _ask_fallback after _ask_local returned: lines 231-246.  `verdict` is what the
\* embedding model would say (should_fallback), used only if the scorer is on
ask_fallback(t, verdict) ==
    LET semantic == semantic_on /\ is_available /\ should_fallback(verdict)
        inadequate == local_inadequate(local_result[t], asked[t], semantic)
    IN  /\ pc[t] = "ask_fallback"
        /\ flagged' = [flagged EXCEPT ![t] =
               IF ~Truthy(local_result[t]) THEN "absent"
               ELSE IF fallback_verdict(local_result[t], asked[t], semantic) THEN "yes"
               ELSE "no"]
        /\ semantic_fallbacks' =
               IF At(FallbackStepTable, <<local_result[t], asked[t], semantic>>) = 7
               THEN semantic_fallbacks + 1 ELSE semantic_fallbacks
        /\ IF ~inadequate THEN Return(t, local_result[t])
           ELSE IF openai_client
           THEN pc' = [pc EXCEPT ![t] = "ask_openai"] /\ UNCHANGED result
           ELSE Return(t, no_remote_result(t))
        /\ UNCHANGED <<config_vars, total_requests, failed_requests, response_times,
                       store_vars, asked, attempt, local_result, pending, sel,
                       rec_date, started, outcomes, openai_ret, rec_entry,
                       remote_calls_on, records_here, records_earlier, restarts>>
        /\ UNCHANGED apart_vars

\* _ask_openai up to its loop: lines 193-200
ask_openai_check(t) ==
    /\ pc[t] = "ask_openai"
    /\ IF ~openai_client THEN ReturnFromOpenai(t, llm_unavailable)
       ELSE IF ~can_make_request THEN ReturnFromOpenai(t, openai_limit_reached)
       ELSE /\ pc' = [pc EXCEPT ![t] = "openai_call"]
            /\ UNCHANGED <<result, openai_ret>>
    /\ attempt' = [attempt EXCEPT ![t] = 0]
    /\ UNCHANGED <<config_vars, counter_vars, store_vars, asked, local_result,
                   pending, sel, rec_date, started, outcomes, flagged, rec_entry,
                   remote_calls_on, records_here, records_earlier, restarts>>
    /\ UNCHANGED apart_vars

\* one turn of _ask_openai's loop: a _make_llm_request('openai', ...) and what follows
ask_openai_attempt(t, o, latency) ==
    LET r == make_llm_request("openai", o)
    IN  /\ pc[t] = "openai_call"
        /\ outcomes' = [outcomes EXCEPT ![t]["openai"] = Append(@, Outcome("openai", o))]
        /\ remote_calls_on' = [remote_calls_on EXCEPT ![today] = @ + 1]
        /\ counters_after("openai", o, latency)
        /\ UNCHANGED semantic_fallbacks
        /\ IF r = None
           THEN IF another_attempt(attempt[t], OPENAI_ATTEMPTS)
                THEN /\ attempt' = [attempt EXCEPT ![t] = @ + 1]
                     /\ UNCHANGED <<pc, result, openai_ret, pending, rec_entry>>
                ELSE /\ ReturnFromOpenai(t, no_response)
                     /\ UNCHANGED <<attempt, pending, rec_entry>>
           ELSE IF At(SuccessTable, r)
           THEN /\ pc' = [pc EXCEPT ![t] = "record_request"]
                /\ pending' = [pending EXCEPT ![t] = r]
                /\ rec_entry' = [rec_entry EXCEPT ![t] = get_today_usage]
                /\ UNCHANGED <<attempt, result, openai_ret>>
           ELSE /\ ReturnFromOpenai(t, r)
                /\ UNCHANGED <<attempt, pending, rec_entry>>
        /\ UNCHANGED <<config_vars, store_vars, asked, local_result, sel, rec_date,
                       started, flagged, records_here, records_earlier, restarts>>
        /\ UNCHANGED apart_vars

\* record_request -> _increment_usage: the statement takes the write lock and
\* evaluates its sub-select
increment_usage_begin(t) ==
    /\ pc[t] = "record_request"
    /\ db_write_lock_free
    /\ db_writer' = t
    /\ rec_date' = [rec_date EXCEPT ![t] = today]
    /\ sel' = [sel EXCEPT ![t] = get_usage(today)]
    /\ pc' = [pc EXCEPT ![t] = "commit"]
    /\ UNCHANGED <<config_vars, counter_vars, openai_usage, today, asked, attempt,
                   local_result, pending, result, history_vars>>
    /\ UNCHANGED apart_vars

\* the row is written, conn.commit() releases the lock, and _ask_openai returns
increment_usage_commit(t) ==
    /\ pc[t] = "commit"
    /\ openai_usage' = upsert(rec_date[t], sel[t])
    /\ db_writer' = NoThread
    /\ records_here' = [records_here EXCEPT ![rec_date[t]] = @ + 1]
    /\ ReturnFromOpenai(t, pending[t])
    /\ UNCHANGED <<config_vars, counter_vars, today, asked, attempt, local_result,
                   pending, sel, rec_date, started, outcomes, flagged, rec_entry,
                   remote_calls_on, records_earlier, restarts>>
    /\ UNCHANGED apart_vars

\* local midnight: datetime.now() moves to the next calendar date
midnight ==
    /\ today < MaxDay
    /\ today' = today + 1
    /\ UNCHANGED <<config_vars, counter_vars, openai_usage, db_writer, local_vars,
                   history_vars>>
    /\ UNCHANGED apart_vars

\* the process is restarted with the same configuration: a new LLMHandler and a new
\* OpenAIRateLimiter over the same database file; an uncommitted write is rolled back
restart ==
    /\ restarts < MaxRestarts
    /\ started > 0
    /\ restarts' = restarts + 1
    /\ total_requests' = [p \in Providers |-> 0]
    /\ failed_requests' = [p \in Providers |-> 0]
    /\ response_times' = [p \in Providers |-> <<>>]
    /\ semantic_fallbacks' = 0
    /\ openai_usage' = store_after_restart
    /\ db_writer' = NoThread
    /\ pc' = [t \in Threads |-> "idle"]
    /\ asked' = [t \in Threads |-> ""]
    /\ attempt' = [t \in Threads |-> 0]
    /\ local_result' = [t \in Threads |-> None]
    /\ pending' = [t \in Threads |-> None]
    /\ result' = [t \in Threads |-> None]
    /\ sel' = [t \in Threads |-> 0]
    /\ rec_date' = [t \in Threads |-> 0]
    /\ outcomes' = [t \in Threads |-> NoOutcomes]
    /\ flagged' = [t \in Threads |-> "unset"]
    /\ openai_ret' = [t \in Threads |-> None]
    /\ rec_entry' = [t \in Threads |-> -1]
    /\ records_earlier' = [d \in Days |-> records_earlier[d] + records_here[d]]
    /\ records_here' = [d \in Days |-> 0]
    /\ UNCHANGED <<config_vars, today, started, remote_calls_on>>
    /\ UNCHANGED apart_vars

\* a step of a request of the threads in T, with questions from Q and provider
\* outcomes from O
RequestStep(T, Q, O) ==
    \/ \E t \in T, q \in Q : ask_llm(t, q)
    \/ \E t \in T, o \in O, l \in Latencies : ask_local_attempt(t, o, l)
    \/ \E t \in T, verdict \in BOOLEAN : ask_fallback(t, verdict)
    \/ \E t \in T : ask_openai_check(t)
    \/ \E t \in T, o \in O, l \in Latencies : ask_openai_attempt(t, o, l)
    \/ \E t \in T : increment_usage_begin(t)
    \/ \E t \in T : increment_usage_commit(t)

\* one process on one day, one request at a time, every question and every
\* provider outcome
Next == RequestStep({1}, Questions, ProviderOutcomes)

Spec == Init /\ [][Next]_vars

\* provider calls that raise, answer nothing, answer text the validator rejects,
\* or answer text it accepts
FairOutcomes ==
    {o \in ProviderOutcomes :
        o.exc \/ o.raw \in {"", "A. B. C. D. E. F.", "Paris is the capital of France."}}

\* a question for the providers and a name question
FairQuestions == {"what is the capital of france", "what's your name?"}

NextFair == RequestStep({1}, FairQuestions, FairOutcomes)

\* one request at a time, with the request's thread running and every provider
\* call ending (it raises or returns) for as long as the request has a step to take
SpecFair == Init /\ [][NextFair]_vars /\ WF_vars(NextFair)

\* requests in flight together across midnights and restarts, over providers
\* that raise, answer nothing or answer well
ConcOutcomes ==
    {o \in ProviderOutcomes : o.exc \/ o.raw \in {"", "Paris is the capital of France."}}

InitConc == Init /\ openai_client /\ ~semantic_on

NextConc ==
    \/ RequestStep(Threads, {"what is the capital of france"}, ConcOutcomes)
    \/ midnight
    \/ restart

SpecConc == InitConc /\ [][NextConc]_vars

(***************************************************************************)
(* The functions of the response-quality gate on their own: one call of    *)
(* _validate_response_length, _is_response_relevant or                     *)
(* _has_poor_semantic_coherence on an argument drawn from the sets below.  *)
(***************************************************************************)
\* the pieces raw answers with meta-reasoning markup are put together from
TagPieces == {"<think>", "</think>", "<", "think>", "hi", " "}

MaxPieces == 3

RECURSIVE Concatenations(_)
\* the texts made of at most n pieces
Concatenations(n) ==
    IF n = 0 THEN {""}
    ELSE LET shorter == Concatenations(n - 1)
         IN  shorter \cup {s \o piece : s \in shorter, piece \in TagPieces}

TaggedResponses == Concatenations(MaxPieces)

RelevanceQuestions ==
    {"python install guide", "Port?", "what is docker", "write python code",
     "how do i install python on a linux server today", ""}

LongGenericResponse ==
    "I'd be happy to help: to get python you go to the site and get the file "
        \o "and run it and then it is set up"

RelevanceResponses ==
    {"I'd be happy to help with python", "Python is a language.", "8080",
     "The port is 8080", "That's a great question about docker",
     "Docker runs containers", "It is sunny today", LongGenericResponse, ""}

CoherenceResponses ==
    {"broken broken broken",
     "the server keeps failing failing failing today and nobody knows why it does",
     "bug bug bug is what the log says about this thing today",
     "Broken, broken, broken is what the log says about this thing today",
     "stepping stepping stepping over the line is what the log says today",
     "Example 1: hello. Example 2: world. Example 3: test",
     "Example 1: use a list. Example 2: use a dict. Example 3: use a set.",
     "Step 1: open it. Step 2: edit it. Step 3: save it.",
     "This is a normal response with varied vocabulary",
     "The cache stores every embedding once and the oldest entry leaves first.",
     "Paris is the capital of France.", ""}

\* local answers in which the words repeat, with and without a "don't know"
\* phrase at the start or further on
FallbackResponses ==
    {"The capital capital capital of france is what i'm not sure about today",
     "the server keeps failing failing failing today and nobody knows why it does",
     "I don't know why the server keeps failing failing failing today and nobody "
        \o "else knows why it does",
     "I don't know the capital capital capital of france today and nobody knows it",
     "I don't know", "Paris is the capital of France.", "It is sunny today", ""}

FallbackQuestions == {"what is the capital of france", "Port?", ""}

FnCalls ==
    {[fn |-> "validate_response_length", response |-> r, strict |-> b] :
        r \in TaggedResponses, b \in BOOLEAN}
    \cup {[fn |-> "is_fallback_response", response |-> r, question |-> q,
           semantic |-> b] :
        r \in FallbackResponses, q \in FallbackQuestions, b \in BOOLEAN}
    \cup {[fn |-> "is_response_relevant", question |-> q, response |-> r] :
        q \in RelevanceQuestions, r \in RelevanceResponses}
    \cup {[fn |-> "has_poor_semantic_coherence", response |-> r] :
        r \in CoherenceResponses}

InitText ==
    /\ mode = "fallback" /\ local_client = TRUE /\ openai_client = TRUE
    /\ daily_limit = 0 /\ semantic_on = FALSE
    /\ InitProcess
    /\ InitScorer
    /\ fn_call \in FnCalls
    /\ fn_value = <<>>

request_vars ==
    <<config_vars, counter_vars, store_vars, local_vars, history_vars, scorer_vars,
      window_vars>>

\* _validate_response_length(response, strict): the text left by the
\* markup-stripping steps, and the value returned
call_validate_response_length ==
    /\ fn_call.fn = "validate_response_length" /\ fn_value = <<>>
    /\ fn_value' = <<[clean |-> CleanResponse(fn_call.response),
                      ret |-> validate_response_length(fn_call.response, fn_call.strict)]>>
    /\ UNCHANGED <<request_vars, fn_call>>

\* the markup-stripping steps once more, on the text they left
strip_again ==
    /\ fn_call.fn = "validate_response_length" /\ Len(fn_value) = 1
    /\ fn_value' = Append(fn_value, [clean |-> CleanResponse(fn_value[1].clean),
                      ret |-> validate_response_length(fn_value[1].clean, fn_call.strict)])
    /\ UNCHANGED <<request_vars, fn_call>>

call_is_response_relevant ==
    /\ fn_call.fn = "is_response_relevant" /\ fn_value = <<>>
    /\ fn_value' = <<is_response_relevant(fn_call.question, fn_call.response)>>
    /\ UNCHANGED <<request_vars, fn_call>>

call_has_poor_semantic_coherence ==
    /\ fn_call.fn = "has_poor_semantic_coherence" /\ fn_value = <<>>
    /\ fn_value' = <<[repetition |-> has_excessive_repetition(fn_call.response),
                      poor |-> has_poor_semantic_coherence(fn_call.response)]>>
    /\ UNCHANGED <<request_vars, fn_call>>

\* _is_fallback_response(response, question): what the coherence checker says of
\* the response, and the value returned
call_is_fallback_response ==
    /\ fn_call.fn = "is_fallback_response" /\ fn_value = <<>>
    /\ fn_value' = <<[poor |-> has_poor_semantic_coherence(fn_call.response),
                      ret |-> is_fallback_response(fn_call.response, fn_call.question,
                                                   fn_call.semantic)]>>
    /\ UNCHANGED <<request_vars, fn_call>>

NextText ==
    \/ call_validate_response_length
    \/ call_is_fallback_response
    \/ strip_again
    \/ call_is_response_relevant
    \/ call_has_poor_semantic_coherence

SpecText == InitText /\ [][NextText]_vars

(***************************************************************************)
(* SemanticSimilarityScorer.get_embedding, and the usage counters of       *)
(* _make_llm_request, step by step.  A `with self.cache_lock:` block is    *)
(* one step: no other block can run inside it, and the statements outside  *)
(* the blocks do not touch the cache or cache_hits.  A `+= 1` outside a     *)
(* lock is a read and a write with other threads free to run in between.   *)
(***************************************************************************)
\* the hit leaves the order of the entries as it is
move_to_end_skipped(cache, k) == cache

\* OrderedDict.move_to_end(k): k becomes the last, most recently used entry
move_to_end(cache, k) == SelectSeq(cache, LAMBDA entry : entry # k) \o <<k>>

\* an insertion that never makes room
cache_insert_keep_all(cache, k, size) ==
    IF \E i \in 1..Len(cache) : cache[i] = k THEN cache ELSE Append(cache, k)

\* lines 94-99: at capacity popitem(last=False) drops the first entry; then
\* cache[k] = embedding appends k, or keeps the place of a k already there
cache_insert(cache, k, size) ==
    LET room == IF Len(cache) >= size THEN Tail(cache) ELSE cache
    IN  IF \E i \in 1..Len(room) : room[i] = k THEN room ELSE Append(room, k)

\* lines 95-96: popitem(last=False) on an empty OrderedDict raises KeyError
popitem_raises(cache, size) == Len(cache) >= size /\ cache = <<>>

\* get_embedding(text) of thread t returns value, after model.encode raised or
\* not
returns(t, text, value, encode_raised) ==
    embedding_ret' =
        [embedding_ret EXCEPT
            ![t] = <<[text |-> text, ret |-> value, encode_raised |-> encode_raised]>>]

gateway_vars ==
    <<config_vars, store_vars, local_vars, history_vars, fn_vars, window_vars>>

\* the access of key k is the latest one
touch(k) ==
    /\ ticks' = ticks + 1
    /\ last_access' = [last_access EXCEPT ![k] = ticks + 1]

\* get_embedding(text) up to the end of the first locked block (lines 72-84): a
\* hit returns the cached embedding, a miss goes on to model.encode
get_embedding(t, text) ==
    /\ scorer_pc[t] = "idle"
    /\ ops < MaxOps
    /\ ops' = ops + 1
    /\ IF ~is_available
       THEN /\ returns(t, text, None, FALSE)
            /\ UNCHANGED <<cache_vars, scorer_pc, text_key, lookup_text,
                           lookups_returned, ticks, last_access>>
       ELSE IF \E i \in 1..Len(embedding_cache) : embedding_cache[i] = cache_key(text)
       THEN /\ embedding_cache' = move_to_end(embedding_cache, cache_key(text))
            /\ cache_hits' = cache_hits + 1
            /\ lookups_returned' = lookups_returned + 1
            /\ touch(cache_key(text))
            /\ returns(t, text, cache_embedding[cache_key(text)], FALSE)
            /\ UNCHANGED <<cache_misses, cache_embedding, scorer_pc, text_key,
                           lookup_text>>
       ELSE /\ scorer_pc' = [scorer_pc EXCEPT ![t] = "encode"]
            /\ text_key' = [text_key EXCEPT ![t] = cache_key(text)]
            /\ lookup_text' = [lookup_text EXCEPT ![t] = text]
            /\ embedding_ret' = [embedding_ret EXCEPT ![t] = <<>>]
            /\ UNCHANGED <<cache_vars, lookups_returned, ticks, last_access>>
    /\ UNCHANGED <<gateway_vars, counter_vars, semantic_cache_size, embedding, loaded,
                   counting, calls_done>>

\* line 88-89: model.encode raises (get_embedding returns None) or returns, and
\* `self.cache_misses += 1` reads the counter
encode(t, raises) ==
    /\ scorer_pc[t] = "encode"
    /\ IF raises
       THEN /\ scorer_pc' = [scorer_pc EXCEPT ![t] = "idle"]
            /\ returns(t, lookup_text[t], None, TRUE)
            /\ lookup_text' = [lookup_text EXCEPT ![t] = ""]
            /\ UNCHANGED <<loaded, embedding>>
       ELSE /\ scorer_pc' = [scorer_pc EXCEPT ![t] = "count_miss"]
            /\ embedding' = [embedding EXCEPT ![t] = model_encode(lookup_text[t])]
            /\ loaded' = [loaded EXCEPT ![t] = cache_misses]
            /\ UNCHANGED <<embedding_ret, lookup_text>>
    /\ UNCHANGED <<gateway_vars, counter_vars, cache_vars, semantic_cache_size,
                   text_key, counting, ops, lookups_returned, calls_done, ticks,
                   last_access>>

\* line 89: `self.cache_misses += 1` writes the counter
count_miss(t) ==
    /\ scorer_pc[t] = "count_miss"
    /\ cache_misses' = loaded[t] + 1
    /\ scorer_pc' = [scorer_pc EXCEPT ![t] = "insert"]
    /\ UNCHANGED <<gateway_vars, counter_vars, embedding_cache, cache_hits,
                   cache_embedding, embed_vars, text_key, loaded, counting, ops,
                   lookups_returned, calls_done, ticks, last_access>>

\* lines 92-101: the second locked block, and the return of the embedding; a
\* KeyError of popitem leaves the block for `except Exception` (lines 103-105),
\* which returns None
cache_store(t) ==
    /\ scorer_pc[t] = "insert"
    /\ IF popitem_raises(embedding_cache, semantic_cache_size)
       THEN /\ returns(t, lookup_text[t], None, FALSE)
            /\ UNCHANGED <<embedding_cache, cache_embedding, ticks, last_access>>
       ELSE /\ embedding_cache' =
                   cache_insert(embedding_cache, text_key[t], semantic_cache_size)
            /\ cache_embedding' =
                   [k \in EmbeddingKeys |->
                       IF k = text_key[t] THEN embedding[t]
                       ELSE IF \E i \in 1..Len(embedding_cache') : embedding_cache'[i] = k
                            THEN cache_embedding[k]
                            ELSE None]
            /\ touch(text_key[t])
            /\ returns(t, lookup_text[t], embedding[t], FALSE)
    /\ lookups_returned' = lookups_returned + 1
    /\ scorer_pc' = [scorer_pc EXCEPT ![t] = "idle"]
    /\ lookup_text' = [lookup_text EXCEPT ![t] = ""]
    /\ embedding' = [embedding EXCEPT ![t] = None]
    /\ UNCHANGED <<gateway_vars, counter_vars, cache_hits, cache_misses,
                   semantic_cache_size, text_key, loaded, counting, ops, calls_done>>

\* the counter _make_llm_request adds to after a call of provider p: failed_requests
\* when it raised or answered nothing, total_requests otherwise
counter_of(p, failed) == IF failed THEN failed_requests[p] ELSE total_requests[p]

\* _make_llm_request: the provider call is over and `self.failed_requests[p] += 1`
\* (lines 608, 645) or `self.total_requests[p] += 1` (lines 621, 632) reads
provider_call(t, p, failed) ==
    /\ scorer_pc[t] = "idle"
    /\ ops < MaxOps
    /\ ops' = ops + 1
    /\ counting' = [counting EXCEPT ![t] = <<p, failed>>]
    /\ loaded' = [loaded EXCEPT ![t] = counter_of(p, failed)]
    /\ scorer_pc' = [scorer_pc EXCEPT ![t] = "count_call"]
    /\ UNCHANGED <<gateway_vars, counter_vars, cache_vars, embed_vars, text_key,
                   lookups_returned, calls_done, ticks, last_access>>

\* the `+= 1` writes, and _make_llm_request returns
count_call(t) ==
    LET p == counting[t][1]
        failed == counting[t][2]
    IN  /\ scorer_pc[t] = "count_call"
        /\ IF failed
           THEN /\ failed_requests' = [failed_requests EXCEPT ![p] = loaded[t] + 1]
                /\ UNCHANGED total_requests
           ELSE /\ total_requests' = [total_requests EXCEPT ![p] = loaded[t] + 1]
                /\ UNCHANGED failed_requests
        /\ calls_done' = [calls_done EXCEPT ![p] = @ + 1]
        /\ scorer_pc' = [scorer_pc EXCEPT ![t] = "idle"]
        /\ UNCHANGED <<gateway_vars, response_times, semantic_fallbacks, cache_vars,
                       embed_vars, text_key, loaded, counting, ops, lookups_returned,
                       ticks, last_access>>

\* a step of a get_embedding call of the threads in T
LookupStep(T) ==
    \/ \E t \in T, text \in EmbeddingTexts : get_embedding(t, text)
    \/ \E t \in T, raises \in BOOLEAN : encode(t, raises)
    \/ \E t \in T : count_miss(t)
    \/ \E t \in T : cache_store(t)

\* a handler with both clients and a scorer whose model is loaded or not, under
\* a configuration with SEMANTIC_CACHE_SIZE = size
InitScoredSized(size) ==
    /\ mode = "fallback" /\ local_client = TRUE /\ openai_client = TRUE
    /\ daily_limit = 0 /\ semantic_on \in BOOLEAN
    /\ InitProcess
    /\ InitScorerSized(size)
    /\ fn_call = NoCall
    /\ fn_value = <<>>

InitScored == InitScoredSized(SEMANTIC_CACHE_SIZE)

\* the lookups of one thread, one after the other
NextCache == LookupStep({1})

SpecCache == InitScored /\ [][NextCache]_vars

\* lookups and provider calls of the request threads in flight together
NextRace ==
    \/ LookupStep(Threads)
    \/ \E t \in Threads, p \in Providers, failed \in BOOLEAN : provider_call(t, p, failed)
    \/ \E t \in Threads : count_call(t)

InitRace == InitScored /\ semantic_on

SpecRace == InitRace /\ [][NextRace]_vars

\* the lookups of the request threads in flight together, for every cache size
\* the configuration check lets through (config.py line 170: only a negative
\* SEMANTIC_CACHE_SIZE is refused)
InitSized == \E size \in 0..SEMANTIC_CACHE_SIZE : InitScoredSized(size) /\ semantic_on

NextSized == LookupStep(Threads)

SpecSized == InitSized /\ [][NextSized]_vars

(***************************************************************************)
(* The usage counters over many provider calls: whole _make_llm_request    *)
(* calls, one after the other, until the history of response times has     *)
(* been full for some calls.  The response time of a call is the number of *)
(* the sample it makes, so that the samples can be told apart.             *)
(***************************************************************************)
\* _make_llm_request(client_type, ...) whose provider call ended as o
llm_request(client_type, o) ==
    LET failed == o.exc \/ IsEmptyRaw(o)
        latency == total_requests[client_type] + 1
    IN  /\ IF failed THEN failed_requests[client_type] < MaxFailures
           ELSE Len(latencies_recorded[client_type]) < MaxSamples
        /\ counters_after(client_type, o, latency)
        /\ latencies_recorded' =
               IF failed THEN latencies_recorded
               ELSE [latencies_recorded EXCEPT ![client_type] = Append(@, latency)]
        /\ UNCHANGED <<config_vars, semantic_fallbacks, store_vars, local_vars,
                       history_vars, fn_vars, scorer_vars, limiter_vars>>

InitWindow == InitScored /\ semantic_on = FALSE

NextWindow == \E p \in Providers, o \in ProviderOutcomes : llm_request(p, o)

SpecWindow == InitWindow /\ [][NextWindow]_vars

\* n / d to the nearest whole number
RoundDiv(n, d) ==
    IF n >= 0 THEN (2 * n + d) \div (2 * d) ELSE 0 - ((2 * (0 - n) + d) \div (2 * d))

\* get_simple_stats, lines 721-724 and 729: the rate it formats with `.1f`, in
\* tenths of a percent
success_rate(total, failed) ==
    IF total > 0 THEN RoundDiv((total - failed) * 1000, total) ELSE 0

\* get_simple_stats: the counters summed over the providers, and the rate
get_simple_stats ==
    LET total == total_requests["local"] + total_requests["openai"]
        failed == failed_requests["local"] + failed_requests["openai"]
    IN  [total_requests |-> total, failed_requests |-> failed,
         success_rate |-> success_rate(total, failed)]

(***************************************************************************)
(* RateLimiter.  is_allowed runs under the limiter's lock from its first   *)
(* statement after reading the clock to its return: one step.              *)
(***************************************************************************)
RECURSIVE drop_old(_, _)
\* lines 82-83, 90-91: popleft while the first timestamp is older than the cutoff
drop_old(queue, cutoff_time) ==
    IF queue # <<>> /\ Head(queue) < cutoff_time
    THEN drop_old(Tail(queue), cutoff_time) ELSE queue

\* _cleanup_old_requests: every queue loses its old timestamps, and a user whose
\* queue is empty loses the entry
cleanup_old_requests(rl, current_time) ==
    LET cutoff_time == current_time - window_size
        kept == {u \in DOMAIN rl.user_requests :
                    drop_old(rl.user_requests[u], cutoff_time) # <<>>}
    IN  [rl EXCEPT !.user_requests =
                       [u \in kept |-> drop_old(rl.user_requests[u], cutoff_time)],
                   !.total_requests = drop_old(@, cutoff_time)]

\* line 57: reading self.user_requests[user] leaves an empty queue for a user the
\* defaultdict did not hold
with_user(requests, user) ==
    [u \in DOMAIN requests \cup {user} |->
        IF u \in DOMAIN requests THEN requests[u] ELSE <<>>]

\* the total limit never consulted
is_allowed_total_unchecked(rl, user, current_time) ==
    LET cleaned == cleanup_old_requests(rl, current_time)
    IN  Len(with_user(cleaned.user_requests, user)[user]) < rl.user_limit_per_minute

\* the value is_allowed(user) returns at current_time
is_allowed(rl, user, current_time) ==
    LET cleaned == cleanup_old_requests(rl, current_time)
        user_request_count == Len(with_user(cleaned.user_requests, user)[user])
        total_request_count == Len(cleaned.total_requests)
    IN  /\ ~(user_request_count >= rl.user_limit_per_minute)
        /\ ~(total_request_count >= rl.total_limit_per_minute)

\* the limiter after is_allowed(user) at current_time: cleaned, and with the
\* request recorded in both queues if it was allowed
after_is_allowed(rl, user, current_time) ==
    LET cleaned == cleanup_old_requests(rl, current_time)
        queues == with_user(cleaned.user_requests, user)
    IN  IF is_allowed(rl, user, current_time)
        THEN [cleaned EXCEPT
                 !.user_requests = [queues EXCEPT ![user] = Append(@, current_time)],
                 !.total_requests = Append(@, current_time)]
        ELSE [cleaned EXCEPT !.user_requests = queues]

\* the history after an is_allowed(user) call
admitted_after(history, rl, user, current_time) ==
    IF is_allowed(rl, user, current_time)
    THEN Append(history, [user |-> user, time |-> current_time]) ELSE history

\* one is_allowed(u) call
call_is_allowed(u) ==
    /\ checks < MaxCalls
    /\ checks' = checks + 1
    /\ rate_limiter' = after_is_allowed(rate_limiter, u, now)
    /\ admitted' = admitted_after(admitted, rate_limiter, u, now)
    /\ last_call' = [fn |-> "is_allowed", user |-> u, time |-> now,
                     ret |-> is_allowed(rate_limiter, u, now)]
    /\ UNCHANGED <<handler_vars, now, private_msg_enabled, clock_ticks, inbound>>

\* time passes
tick(d) ==
    /\ clock_ticks < MaxTicks
    /\ clock_ticks' = clock_ticks + 1
    /\ now' = now + d
    /\ UNCHANGED <<handler_vars, rate_limiter, private_msg_enabled, admitted, checks,
                   last_call, inbound>>

\* a handler and a bot whose limiter has any of the small limits
InitLimits ==
    /\ mode = "fallback" /\ local_client = TRUE /\ openai_client = TRUE
    /\ daily_limit = 0 /\ semantic_on = FALSE
    /\ InitHandler
    /\ InitScorer
    /\ fn_call = NoCall
    /\ fn_value = <<>>
    /\ \E user_limit \in 0..MaxUserLimit, total_limit \in 0..(MaxUserLimit + 1),
          private_enabled \in BOOLEAN :
            InitLimiter(user_limit, total_limit, private_enabled)

NextLimiter ==
    \/ \E u \in Users : call_is_allowed(u)
    \/ \E d \in TimeSteps : tick(d)

SpecLimiter == InitLimits /\ [][NextLimiter]_vars

(***************************************************************************)
(* AircBot.on_pubmsg and on_privmsg, as far as the command rate limiter    *)
(* goes.  A handler runs on the IRC reactor thread from the arrival of the *)
(* message to its return: one step, with time.time() the same in its       *)
(* is_allowed calls.  What a command does once it is let through is not    *)
(* part of the step.                                                       *)
(***************************************************************************)
\* the messages told apart by message.startswith(COMMAND_PREFIX) and
\* is_bot_mentioned(message)
MessageKinds == {"command", "mention", "plain"}

\* a handler before its first is_allowed call
Arrived(rl, history) ==
    [rl |-> rl, admitted |-> history, outcome |-> "processed", checked |-> <<>>]

\* `if not self.rate_limiter.is_allowed(user): ... return` at the head of a
\* handler (bot.py lines 123-126, 167-170, 660-663), after the checks of so_far
check_rate_limit(so_far, user, current_time) ==
    IF so_far.outcome # "processed" THEN so_far
    ELSE [rl |-> after_is_allowed(so_far.rl, user, current_time),
          admitted |-> admitted_after(so_far.admitted, so_far.rl, user, current_time),
          outcome |-> IF is_allowed(so_far.rl, user, current_time)
                      THEN "processed" ELSE "rate_limited",
          checked |-> Append(so_far.checked, is_allowed(so_far.rl, user, current_time))]

\* handle_command up to the dispatch of the command
handle_command(so_far, user, current_time) == check_rate_limit(so_far, user, current_time)

\* handle_name_mention up to the reading of the message
handle_name_mention(so_far, user, current_time) ==
    check_rate_limit(so_far, user, current_time)

\* on_pubmsg, lines 100-105: a command goes to handle_command, a mention of the
\* bot to handle_name_mention, any other message to neither
pubmsg_handled(rl, history, user, kind, current_time) ==
    IF kind = "command" THEN handle_command(Arrived(rl, history), user, current_time)
    ELSE IF kind = "mention"
    THEN handle_name_mention(Arrived(rl, history), user, current_time)
    ELSE Arrived(rl, history)

\* on_privmsg, lines 116-142: refused when private messages are off; else the
\* limiter is asked, and a command that it lets through goes to handle_command
privmsg_handled(rl, history, user, kind, current_time) ==
    IF ~private_msg_enabled
    THEN [Arrived(rl, history) EXCEPT !.outcome = "disabled"]
    ELSE LET checked == check_rate_limit(Arrived(rl, history), user, current_time)
         IN  IF checked.outcome = "processed" /\ kind = "command"
             THEN handle_command(checked, user, current_time)
             ELSE checked

\* the bot's state after a handler that ended as done
message_done(u, kind, private, done) ==
    /\ rate_limiter' = done.rl
    /\ admitted' = done.admitted
    /\ checks' = checks + Len(done.checked)
    /\ last_call' = IF done.checked = <<>> THEN last_call
                    ELSE [fn |-> "is_allowed", user |-> u, time |-> now,
                          ret |-> done.checked[Len(done.checked)]]
    /\ inbound' = [n |-> inbound.n + 1, kind |-> kind, user |-> u, private |-> private,
                   outcome |-> done.outcome,
                   slots |-> Len(done.admitted) - Len(admitted)]
    /\ UNCHANGED <<handler_vars, now, private_msg_enabled, clock_ticks>>

on_pubmsg(u, kind) ==
    /\ inbound.n < MaxMessages
    /\ message_done(u, kind, FALSE,
                    pubmsg_handled(rate_limiter, admitted, u, kind, now))

on_privmsg(u, kind) ==
    /\ inbound.n < MaxMessages
    /\ message_done(u, kind, TRUE,
                    privmsg_handled(rate_limiter, admitted, u, kind, now))

NextBot ==
    \/ \E u \in Users, kind \in MessageKinds : on_pubmsg(u, kind)
    \/ \E u \in Users, kind \in MessageKinds : on_privmsg(u, kind)
    \/ \E d \in TimeSteps : tick(d)

SpecBot == InitLimits /\ [][NextBot]_vars

(***************************************************************************)
(* Properties                                                              *)
(***************************************************************************)
\* the provider calls of the request of thread t, oldest first
Calls(t, p) == outcomes[t][p]

Last(calls) == calls[Len(calls)]

\* what the retry loop of _ask_local / _ask_openai returns after the calls
LoopResult(calls) ==
    IF Last(calls).kind = "empty" THEN no_response ELSE Last(calls).value

\* the provider answered text and the validator turned it down
RejectedKinds == {"rejected_empty", "rejected_complex"}

Max(a, b) == IF a > b THEN a ELSE b

\* the fixed messages of get_error_messages that ask_llm can return
FixedErrorMessages ==
    {llm_unavailable, llm_error(ExceptionDetail), too_complex, no_response}

\* the request of thread t has nowhere to go after provider p
NoEscalationFrom(p) == p = "openai" \/ ~openai_client

RemoteUnavailableReturnsLocal ==
    \A t \in Threads :
        (/\ mode = "fallback" /\ local_client /\ ~openai_client
         /\ pc[t] = "done" /\ Calls(t, "local") # <<>>)
        => /\ Truthy(result[t])
           /\ result[t] = local_result[t]
           /\ result[t] = LoopResult(Calls(t, "local"))
           /\ Calls(t, "openai") = <<>>

\* C2: in mode fallback with no remote client the engine returns what the local
\* provider produced, and no request in which a provider produced text (here:
\* text that passed validation) ends in a fixed error message.
C2_NeverHardFailureAfterText ==
    /\ RemoteUnavailableReturnsLocal
    /\ \A t \in Threads :
           (/\ pc[t] = "done"
            /\ \E p \in Providers : \E i \in DOMAIN Calls(t, p) :
                   Calls(t, p)[i].kind = "accepted")
           => result[t] \notin FixedErrorMessages \cup {openai_limit_reached}

\* C3: _ask_local calls the local provider once per attempt and stops at the
\* first call that is not an empty answer: every call before the last one was
\* empty, the loop goes on only after an empty answer, the value returned is the
\* last call's result, and LLM_RETRY_ATTEMPTS empty answers end in no_response,
\* which is also what ask_llm returns when there is no remote client.
C3_LocalRetryStopsAtFirstNonEmpty ==
    \A t \in Threads :
        LET calls == Calls(t, "local")
            n == Len(calls)
        IN  /\ n <= LLM_RETRY_ATTEMPTS
            /\ \A i \in 1..(n - 1) : calls[i].kind = "empty"
            /\ pc[t] = "ask_local" =>
                   /\ n = attempt[t]
                   /\ n < LLM_RETRY_ATTEMPTS
                   /\ n > 0 => calls[n].kind = "empty"
            /\ local_result[t] # None =>
                   /\ n >= 1
                   /\ IF calls[n].kind # "empty"
                      THEN local_result[t] = calls[n].value
                      ELSE n = LLM_RETRY_ATTEMPTS /\ local_result[t] = no_response
                   /\ (pc[t] = "done" /\ ~openai_client /\ calls[n].kind = "empty")
                          => result[t] = no_response

\* scenario 3: the attempt budget of empty answers, no remote client
C3_Witness ==
    \E t \in Threads :
        /\ pc[t] = "done" /\ ~openai_client
        /\ Len(Calls(t, "local")) = LLM_RETRY_ATTEMPTS
        /\ \A i \in 1..LLM_RETRY_ATTEMPTS : Calls(t, "local")[i].kind = "empty"
        /\ result[t] = no_response

\* C4 (amended): a validation rejection is never retried: a rejected answer is the
\* provider's last call of the request (only empty answers precede it), and with
\* no other provider to escalate to ask_llm returns the validator's message:
\* too_complex for length or complexity, no_response when cleaning leaves nothing.
C4_RejectionEndsRetryLoop ==
    \A t \in Threads, p \in Providers :
        LET calls == Calls(t, p)
            n == Len(calls)
        IN  /\ \A i \in 1..(n - 1) : calls[i].kind = "empty"
            /\ (/\ n > 0 /\ calls[n].kind \in RejectedKinds
                /\ pc[t] = "done" /\ NoEscalationFrom(p))
               => result[t] = IF calls[n].kind = "rejected_complex"
                              THEN too_complex ELSE no_response

\* an over-long answer after an empty one: two calls, then too_complex
C4_Witness ==
    \E t \in Threads :
        /\ mode = "local_only" /\ pc[t] = "done"
        /\ Len(Calls(t, "local")) = 2
        /\ Calls(t, "local")[1].kind = "empty"
        /\ Calls(t, "local")[2].kind = "rejected_complex"
        /\ result[t] = too_complex

\* C4 as stated: a provider whose answer the validator rejects is called exactly
\* once for the request, and with no other provider to escalate to ask_llm
\* returns too_complex.
C4_RejectedProviderCalledOnce ==
    \A t \in Threads, p \in Providers :
        LET calls == Calls(t, p)
            n == Len(calls)
        IN  (n > 0 /\ calls[n].kind \in RejectedKinds) =>
                /\ n = 1
                /\ (pc[t] = "done" /\ NoEscalationFrom(p)) => result[t] = too_complex

\* the record_request calls completed on date d, by this process and earlier ones
Recorded(d) == records_earlier[d] + records_here[d]

\* C5: with a daily limit L > 0 and N remote calls recorded today,
\* can_make_request is true exactly when N < L, and the usage statistics report
\* N as today's usage and max(0, L - N) as remaining: so after one more record
\* they report N + 1 and max(0, L - (N + 1)).
C5_QuotaArithmetic ==
    daily_limit > 0 =>
        LET N == Recorded(today)
        IN  /\ can_make_request <=> N < daily_limit
            /\ get_usage_stats.today_usage = N
            /\ get_usage_stats.remaining = Max(0, daily_limit - N)
            /\ get_usage_stats.daily_limit = daily_limit

\* the limit of two reached by two recorded calls
C5_Witness ==
    /\ daily_limit = 2 /\ Recorded(today) = 2
    /\ ~can_make_request
    /\ get_usage_stats.remaining = 0

\* C6: record_request is called for a successful remote completion only: never
\* for a remote request whose result is one of the fixed error messages or the
\* quota message.
C6_ErrorResultsNotRecorded ==
    \A t \in Threads :
        pc[t] = "record_request" =>
            pending[t] \notin FixedErrorMessages \cup {openai_limit_reached}

\* C7: when today's recorded count has reached the daily limit L > 0, _ask_openai
\* returns openai_limit_reached at once: no remote call is made, and the daily
\* counter and the handler's usage counters stay as they were.
C7_QuotaExhaustedNoCall ==
    [][\A t \in Threads :
          (/\ pc[t] = "ask_openai" /\ pc'[t] # "ask_openai"
           /\ openai_client /\ daily_limit > 0 /\ get_today_usage >= daily_limit)
          => /\ pc'[t] = "done"
             /\ result'[t] = openai_limit_reached
             /\ openai_ret'[t] = openai_limit_reached
             /\ UNCHANGED <<outcomes, remote_calls_on, openai_usage, records_here,
                            total_requests, failed_requests, response_times>>]_vars

\* a request turned away at the limit without a remote call
C7_Witness ==
    \E t \in Threads :
        /\ daily_limit > 0 /\ get_today_usage = daily_limit
        /\ pc[t] = "done" /\ result[t] = openai_limit_reached
        /\ Calls(t, "openai") = <<>>

\* C8: whatever the interleaving of the record_request calls of the requests in
\* flight, the persisted count of every date is the number of record_request
\* calls completed on it: no increment is lost.
C8_NoLostIncrement ==
    \A d \in Days : get_usage(d) = Recorded(d)

\* two requests that finished their remote call at the same count, both recorded
C8_Witness ==
    /\ \A t \in Threads : pc[t] = "done" /\ rec_entry[t] = 0
    /\ rec_date[1] = rec_date[2]
    /\ get_usage(rec_date[1]) = 2

\* C9: with a daily limit L > 0 the remote provider is called at most L times in
\* a calendar day.
C9_DailyCap ==
    daily_limit > 0 => \A d \in Days : remote_calls_on[d] <= daily_limit

\* C10: a new process over the same database file reports, for today, the number
\* of record_request calls earlier processes completed today.
C10_CounterSurvivesRestart ==
    (restarts > 0 /\ records_here[today] = 0) =>
        get_usage_stats.today_usage = records_earlier[today]

\* after a restart the new process sees the call the earlier one recorded today
C10_Witness ==
    /\ restarts > 0 /\ records_here[today] = 0
    /\ records_earlier[today] = 1
    /\ get_today_usage = 1

\* the request of thread t has just made a call of provider p
JustCalled(t, p) == Len(outcomes'[t][p]) = Len(outcomes[t][p]) + 1

\* C11: when a provider call raises, _make_llm_request catches the exception:
\* that provider's failed_requests grows by exactly one and no other usage counter
\* moves, the call's value is llm_error(detail), and the request goes on as after
\* any returned text: the remote side and mode local_only return the message to
\* ask_llm's caller, mode fallback hands it to _ask_fallback.
C11_ExceptionCaught ==
    [][\A t \in Threads, p \in Providers :
          (JustCalled(t, p) /\ Last(outcomes'[t][p]).kind = "exception")
          => /\ failed_requests' = [failed_requests EXCEPT ![p] = @ + 1]
             /\ UNCHANGED <<total_requests, response_times, semantic_fallbacks>>
             /\ Last(outcomes'[t][p]).value = llm_error(ExceptionDetail)
             /\ IF p = "local" /\ mode = "fallback"
                THEN /\ pc'[t] = "ask_fallback"
                     /\ local_result'[t] = llm_error(ExceptionDetail)
                ELSE /\ pc'[t] = "done"
                     /\ result'[t] = llm_error(ExceptionDetail)]_vars

\* a request that ended with the error message of a provider call that raised
C11_Witness ==
    \E t \in Threads, p \in Providers :
        /\ pc[t] = "done" /\ result[t] = llm_error(ExceptionDetail)
        /\ Calls(t, p) # <<>> /\ Last(Calls(t, p)).kind = "exception"
        /\ failed_requests[p] = 1

\* the questions that contain one of the name patterns, whatever their case
NameQuestions ==
    {q \in Questions : \E p \in name_patterns : Contains(Lower(q), p)}

\* C12: with an enabled handler in any mode, ask_llm on a question that contains a
\* name pattern returns the canned name response at once: no provider call is
\* made, and the usage counters, the response times, the semantic counter and
\* the daily quota stay as they were.
C12_NameQuestionIntercepted ==
    [][\A t \in Threads :
          (/\ started' = started + 1 /\ pc'[t] # "idle"
           /\ asked'[t] \in NameQuestions /\ is_enabled)
          => /\ pc'[t] = "done"
             /\ result'[t] = get_name_response(IRC_NICKNAME)
             /\ outcomes'[t] = NoOutcomes
             /\ UNCHANGED <<counter_vars, store_vars, remote_calls_on,
                            records_here>>]_vars

\* a name question answered after a request that had moved the counters
C12_Witness ==
    \E t \in Threads :
        /\ pc[t] = "done" /\ asked[t] = "what's your name?" /\ is_enabled
        /\ result[t] = get_name_response(IRC_NICKNAME)
        /\ outcomes[t] = NoOutcomes
        /\ total_requests["local"] = 1

\* C13: in mode local_only a request calls the local provider only, returns what
\* _ask_local returned and leaves the daily quota alone; in mode openai_only it
\* calls the remote provider only and returns what _ask_openai returned; a
\* request that called both providers ran in mode fallback, and no local call
\* follows a remote call.
C13_ModeRoutingExclusive ==
    [][\A t \in Threads :
          /\ \A p \in Providers :
                JustCalled(t, p) =>
                    /\ mode = "local_only" => p = "local"
                    /\ mode = "openai_only" => p = "openai"
                    /\ p = "local" => outcomes[t]["openai"] = <<>>
          /\ mode = "local_only" =>
                UNCHANGED <<openai_usage, remote_calls_on, records_here>>
          /\ (/\ pc[t] # "done" /\ pc'[t] = "done"
              /\ is_enabled /\ asked'[t] \notin NameQuestions)
             => /\ mode = "local_only" =>
                      /\ local_result'[t] # None /\ openai_ret'[t] = None
                      /\ result'[t] = local_result'[t]
                /\ mode = "openai_only" =>
                      /\ openai_ret'[t] # None /\ local_result'[t] = None
                      /\ result'[t] = openai_ret'[t]
                /\ (outcomes'[t]["local"] # <<>> /\ outcomes'[t]["openai"] # <<>>)
                      => mode = "fallback"]_vars

\* a fallback request that called the local provider and then the remote one
C13_Witness ==
    \E t \in Threads :
        /\ mode = "fallback" /\ pc[t] = "done"
        /\ Calls(t, "local") # <<>> /\ Calls(t, "openai") # <<>>
        /\ result[t] = openai_ret[t]

SentinelTags == {"<think>", "</think>"}

\* C14: the markup-stripping steps applied to the text they left give that text
\* again.
C14_CleaningIdempotent ==
    (fn_call.fn = "validate_response_length" /\ Len(fn_value) = 2)
        => fn_value[2].clean = fn_value[1].clean

\* C15: a text _validate_response_length returns as accepted contains neither
\* the opening nor the closing think tag.
C15_AcceptedTextHasNoSentinel ==
    (/\ fn_call.fn = "validate_response_length" /\ Len(fn_value) >= 1
     /\ fn_value[1].ret \notin {no_response, too_complex})
        => \A tag \in SentinelTags : ~Contains(fn_value[1].ret, tag)

\* the call is _is_response_relevant on a question of at most 3 meaningful words
\* and a response that contains at least one of them
ShortQuestionSharesKeyword ==
    /\ fn_call.fn = "is_response_relevant"
    /\ LET words == QuestionWords(Lower(fn_call.question))
       IN  /\ Len(words) <= 3
           /\ \E i \in 1..Len(words) : Contains(Lower(fn_call.response), words[i])

\* a response of fewer than 25 words with a generic opener in its first 100
\* characters
GenericOpenerShort(r) ==
    /\ WordCount(r) < FALLBACK_GENERIC_RESPONSE_MAX_WORDS
    /\ \E opener \in generic_patterns :
           LET at == Find(Lower(r), opener, 1)
           IN  at > 0 /\ at + Len(opener) - 1 <= GenericStartChars

\* C16 as stated: for a question of at most 3 meaningful words, a response that
\* shares a keyword with it is never marked irrelevant.
C16_ShortQuestionNeverIrrelevant ==
    (ShortQuestionSharesKeyword /\ Len(fn_value) = 1) => fn_value[1]

\* C16: for a question of at most 3 meaningful words and a response that shares
\* a keyword with it, _is_response_relevant answers irrelevant exactly when the
\* response is a generic template: fewer than 25 words, with a generic opener in
\* its first 100 characters.
C16_ShortQuestionRelevantUnlessGeneric ==
    (ShortQuestionSharesKeyword /\ Len(fn_value) = 1)
        => (fn_value[1] <=> ~GenericOpenerShort(fn_call.response))

\* a one-keyword overlap with a three-word question, taken for relevant
C16_Witness ==
    /\ fn_call.fn = "is_response_relevant"
    /\ fn_call.question = "python install guide"
    /\ fn_call.response = "Python is a language."
    /\ fn_value = <<TRUE>>

\* the response holds a word that is neither a stop word nor an enumerator word
\* three times in a row
HasTripleContentWord(r) ==
    LET words == SplitWords(Lower(r))
    IN  \E i \in 1..(Len(words) - 2) :
            /\ words[i] = words[i + 1] /\ words[i + 1] = words[i + 2]
            /\ words[i] \notin stop_words \cup EnumeratorWords

\* the response has the form "Example 1: ... Example 2: ... Example 3: ..."
IsExampleEnumeration(r) ==
    LET first == Find(r, "Example 1:", 1)
        second == IF first = 0 THEN 0 ELSE Find(r, "Example 2:", first + 1)
        third == IF second = 0 THEN 0 ELSE Find(r, "Example 3:", second + 1)
    IN  third # 0

\* C17: _has_poor_semantic_coherence flags every response with an immediate
\* triple repetition of a content word that is not an enumerator word, and does
\* not flag a response of the form "Example 1: ... Example 2: ... Example 3: ...".
C17_TripleFlaggedEnumerationNot ==
    (fn_call.fn = "has_poor_semantic_coherence" /\ Len(fn_value) = 1)
        => /\ HasTripleContentWord(fn_call.response) => fn_value[1].poor
           /\ IsExampleEnumeration(fn_call.response) => ~fn_value[1].poor

\* C18: while the scorer is unavailable, should_fallback is false and
\* compute_similarity is 0 whatever the embedding model would say, the semantic
\* counter does not move, and _ask_fallback escalates a local result only when
\* it is absent or flagged by the checks other than the semantic one.
C18_UnavailableScorerNeverEscalates ==
    [][~is_available =>
          /\ \A verdict \in BOOLEAN : ~should_fallback(verdict)
          /\ \A score \in SimilarityScores : compute_similarity(score) = 0
          /\ semantic_fallbacks' = semantic_fallbacks
          /\ \A t \in Threads :
                (pc[t] = "ask_fallback" /\ pc'[t] # "ask_fallback") =>
                    /\ flagged'[t] = "yes" <=>
                          /\ Truthy(local_result[t])
                          /\ fallback_verdict(local_result[t], asked[t], FALSE)
                    /\ pc'[t] = "ask_openai" => flagged'[t] \in {"absent", "yes"}]_vars

\* without a scorer, a local answer that passed the other checks was returned
C18_Witness ==
    \E t \in Threads :
        /\ mode = "fallback" /\ ~is_available /\ openai_client
        /\ pc[t] = "done" /\ flagged[t] = "no"
        /\ result[t] = local_result[t] /\ Calls(t, "openai") = <<>>
        /\ semantic_fallbacks = 0

\* the keys in the cache
Cached(cache) == {cache[i] : i \in 1..Len(cache)}

\* the cached keys other than k, in the cache's order
Others(cache, k) == SelectSeq(cache, LAMBDA entry : entry # k)

\* C19: a cache hit makes the entry the most recently used one and keeps the
\* order of the others; a miss inserts the new key as the most recently used
\* one and, when the cache is at capacity, drops exactly one entry, the one
\* whose last access (hit or insert) is the oldest of all cached entries.
C19_LeastRecentlyUsedEvicted ==
    [][/\ cache_hits' = cache_hits + 1 =>
             \E k \in Cached(embedding_cache) :
                 /\ Last(embedding_cache') = k
                 /\ Others(embedding_cache', k) = Others(embedding_cache, k)
       /\ (cache_hits' = cache_hits /\ embedding_cache' # embedding_cache) =>
             LET k == Last(embedding_cache')
                 dropped == Cached(embedding_cache) \ Cached(embedding_cache')
             IN  /\ k \notin Cached(embedding_cache)
                 /\ Len(embedding_cache') <= SEMANTIC_CACHE_SIZE
                 /\ IF Len(embedding_cache) < SEMANTIC_CACHE_SIZE
                    THEN dropped = {}
                    ELSE \E old \in Cached(embedding_cache) :
                            /\ dropped = {old}
                            /\ \A kept \in Cached(embedding_cache) \ {old} :
                                   last_access[old] < last_access[kept]
                 /\ Others(embedding_cache', k)
                        = SelectSeq(embedding_cache, LAMBDA entry : entry \notin dropped)
      ]_vars

\* the entry inserted first was hit and stayed; the one inserted after it left
C19_Witness ==
    /\ Len(embedding_cache) = SEMANTIC_CACHE_SIZE
    /\ cache_hits = 1 /\ cache_misses = SEMANTIC_CACHE_SIZE + 1
    /\ ticks = SEMANTIC_CACHE_SIZE + 2
    /\ \E old \in EmbeddingKeys \ Cached(embedding_cache) :
           /\ last_access[old] = 2
           /\ \A kept \in Cached(embedding_cache) : last_access[kept] > 2

\* C20: once every call has returned, total_requests + failed_requests of a
\* provider is the number of its completed calls, and cache_hits + cache_misses
\* is the number of lookups that returned an embedding.
C20_NoCounterUpdateLost ==
    (\A t \in Threads : scorer_pc[t] = "idle") =>
        /\ \A p \in Providers : total_requests[p] + failed_requests[p] = calls_done[p]
        /\ cache_hits + cache_misses = lookups_returned

\* the last n entries of a sequence, all of them when it has fewer
LastN(seq, n) == IF Len(seq) <= n THEN seq ELSE SubSeq(seq, Len(seq) - n + 1, Len(seq))

\* C21: for each provider the history of response times never holds more than
\* 100 entries, and it is the last 100 response times recorded for that provider,
\* oldest first: once it is full, a new sample drops the oldest one.
C21_HistoryIsLastHundred ==
    \A p \in Providers :
        /\ Len(response_times[p]) <= RESPONSE_TIMES_KEPT
        /\ response_times[p] = LastN(latencies_recorded[p], RESPONSE_TIMES_KEPT)

\* a provider's history was full, took two more samples and lost its two oldest
C21_Witness ==
    \E p \in Providers :
        /\ Len(latencies_recorded[p]) = RESPONSE_TIMES_KEPT + 2
        /\ Len(response_times[p]) = RESPONSE_TIMES_KEPT
        /\ response_times[p][1] = latencies_recorded[p][3]
        /\ response_times[p][1] # latencies_recorded[p][1]
        /\ Last(response_times[p]) = Last(latencies_recorded[p])

\* the requests of the users in U that is_allowed admitted from time a to time b
AdmittedIn(U, a, b) ==
    Cardinality({i \in DOMAIN admitted :
                    admitted[i].user \in U /\ a <= admitted[i].time /\ admitted[i].time <= b})

\* the timestamps in a queue that are not older than the window
Fresh(queue) == SelectSeq(queue, LAMBDA ts : ts >= now - window_size)

\* the times of the requests of the users in U admitted in the window ending now
AdmittedTimes(U) ==
    LET recent == SelectSeq(admitted, LAMBDA a : a.user \in U /\ a.time >= now - window_size)
    IN  [i \in 1..Len(recent) |-> recent[i].time]

QueueOf(u) ==
    IF u \in DOMAIN rate_limiter.user_requests THEN rate_limiter.user_requests[u] ELSE <<>>

\* in every window of window_size seconds that starts with an admitted request,
\* no user has more admitted requests than the user limit and all users together
\* have no more than the total limit; the queues hold the admitted requests of
\* the current window and nothing else; a limit of zero admits nothing
LimitsKept ==
    /\ \A i \in DOMAIN admitted :
           LET a == admitted[i].time
           IN  /\ \A u \in Users :
                      AdmittedIn({u}, a, a + window_size) <= rate_limiter.user_limit_per_minute
               /\ AdmittedIn(Users, a, a + window_size) <= rate_limiter.total_limit_per_minute
    /\ \A u \in Users : Fresh(QueueOf(u)) = AdmittedTimes({u})
    /\ Fresh(rate_limiter.total_requests) = AdmittedTimes(Users)
    /\ (rate_limiter.user_limit_per_minute = 0 \/ rate_limiter.total_limit_per_minute = 0)
           => admitted = <<>>

\* an is_allowed call admits the request exactly when the user's admitted
\* requests of the window are below the user limit and all admitted requests of
\* the window are below the total limit: below the total limit, only the
\* user's own requests count; a rejected call leaves both queues' windows as
\* they were
AdmissionRule ==
    checks' = checks + 1 =>
        \E u \in Users : LET w == now - window_size IN
            /\ u = last_call'.user
            /\ last_call'.ret <=>
                   /\ AdmittedIn({u}, w, now) < rate_limiter.user_limit_per_minute
                   /\ AdmittedIn(Users, w, now) < rate_limiter.total_limit_per_minute
            /\ ~last_call'.ret =>
                   /\ \A v \in Users :
                          Len(Fresh(QueueOf(v)))' = AdmittedIn({v}, w, now)
                   /\ Len(Fresh(rate_limiter.total_requests))' = AdmittedIn(Users, w, now)
            /\ last_call'.ret =>
                   /\ \A v \in Users \ {u} :
                          Len(Fresh(QueueOf(v)))' = AdmittedIn({v}, w, now)
                   /\ Len(Fresh(QueueOf(u)))' = AdmittedIn({u}, w, now) + 1
                   /\ Len(Fresh(rate_limiter.total_requests))' = AdmittedIn(Users, w, now) + 1

\* C22: is_allowed admits, in any sliding window of window_size seconds, at most
\* user_limit_per_minute requests per user and at most total_limit_per_minute
\* requests in all; a rejected request is recorded against neither limit; until
\* the total limit is reached a user's admission depends on that user's requests
\* only; and a limit of zero admits nothing.
C22_SlidingWindowLimits == []LimitsKept /\ [][AdmissionRule]_vars

\* with limits 2 and 3, two requests of one user and one of the other were
\* admitted within a window and one call was rejected; after the window had
\* passed, a request was admitted again
C22_Witness ==
    /\ rate_limiter.user_limit_per_minute = 2 /\ rate_limiter.total_limit_per_minute = 3
    /\ checks = 5 /\ Len(admitted) = 4
    /\ admitted[3].time <= admitted[1].time + window_size
    /\ admitted[4].time > admitted[1].time + window_size
    /\ admitted[1].user = admitted[2].user /\ admitted[3].user # admitted[1].user
    /\ last_call.ret /\ last_call.time = admitted[4].time

\* C23: for every non-empty response and non-empty question, a response the
\* coherence checker flags as poor makes _is_fallback_response return true.
C23_PoorCoherenceAlwaysFlagged ==
    (/\ fn_call.fn = "is_fallback_response" /\ Len(fn_value) = 1
     /\ fn_call.response # "" /\ fn_call.question # ""
     /\ fn_value[1].poor)
    => fn_value[1].ret

\* C24: in mode fallback with both clients, a request whose local provider call
\* raised (so that _ask_local returned the llm_error message) goes on to
\* _ask_openai, and what it returns is what _ask_openai returned.
C24_LocalErrorEscalates ==
    \A t \in Threads :
        (/\ mode = "fallback" /\ local_client /\ openai_client
         /\ pc[t] = "done" /\ Calls(t, "local") # <<>>
         /\ Last(Calls(t, "local")).kind = "exception")
        => /\ openai_ret[t] # None
           /\ result[t] = openai_ret[t]

InFlight(t) == pc[t] \notin {"idle", "done"}

\* a request has made at most LLM_RETRY_ATTEMPTS local calls and at most 2 remote
\* calls, and an answered request has a text as its result
CallsBounded ==
    \A t \in Threads :
        /\ Len(Calls(t, "local")) <= LLM_RETRY_ATTEMPTS
        /\ Len(Calls(t, "openai")) <= OPENAI_ATTEMPTS
        /\ pc[t] = "done" => result[t] \notin {None, ""}

\* no local call is made once the request has called the remote provider
LocalCallsFirst ==
    \A t \in Threads : JustCalled(t, "local") => Calls(t, "openai") = <<>>

\* C25: every ask_llm request ends, whatever the mode and whatever the provider
\* calls do (raise, answer nothing, answer text that is rejected or accepted):
\* it makes at most LLM_RETRY_ATTEMPTS local calls, then at most 2 remote calls,
\* and returns a text.
C25_RequestTerminates ==
    /\ []CallsBounded
    /\ [][LocalCallsFirst]_vars
    /\ \A t \in Threads : InFlight(t) ~> pc[t] = "done"

\* a request that used up both budgets: three local and two remote calls that
\* answered nothing, and no_response returned
C25_Witness ==
    \E t \in Threads :
        /\ pc[t] = "done" /\ result[t] = no_response
        /\ Len(Calls(t, "local")) = LLM_RETRY_ATTEMPTS
        /\ Len(Calls(t, "openai")) = OPENAI_ATTEMPTS
        /\ \A p \in Providers : \A i \in DOMAIN Calls(t, p) : Calls(t, p)[i].kind = "empty"


\* C26: however the get_embedding calls of the threads interleave, and whatever
\* the configured SEMANTIC_CACHE_SIZE, the embedding cache never holds more
\* entries than that size.
C26_CacheWithinCapacity == Len(embedding_cache) <= semantic_cache_size

\* the cache is full, an entry stored earlier has been evicted, and thread 2 is
\* between its miss and its insertion
C26_Witness ==
    /\ semantic_cache_size = SEMANTIC_CACHE_SIZE
    /\ Len(embedding_cache) = semantic_cache_size
    /\ \E old \in EmbeddingKeys \ Cached(embedding_cache) : last_access[old] > 0
    /\ scorer_pc[2] = "insert"

\* C27: with the scorer available, every get_embedding call in which
\* model.encode did not raise returns the model's embedding of its text, and
\* never None, whatever the cache holds and whatever SEMANTIC_CACHE_SIZE >= 0
\* is configured.
C27_CacheTransparent ==
    is_available =>
        \A t \in Threads :
            \A i \in 1..Len(embedding_ret[t]) :
                ~embedding_ret[t][i].encode_raised =>
                    embedding_ret[t][i].ret = model_encode(embedding_ret[t][i].text)

\* the history new is the history old with one sample more at its end, cut to
\* the last RESPONSE_TIMES_KEPT samples
OneSampleMore(old, new) ==
    /\ Len(new) = (IF Len(old) < RESPONSE_TIMES_KEPT THEN Len(old) + 1
                   ELSE RESPONSE_TIMES_KEPT)
    /\ SubSeq(new, 1, Len(new) - 1) = LastN(old, Len(new) - 1)

\* C28: a completed provider call moves exactly one outcome counter of its
\* provider: for an answer with text, accepted or rejected by the validation,
\* total_requests grows by one and the history of response times gets one
\* sample while failed_requests stays; for an empty answer or an exception
\* failed_requests grows by one while total_requests and the history stay.
\* The counters of the other provider stay as they are.
C28_OneCounterPerCall ==
    [][\A t \in Threads, p \in Providers :
          JustCalled(t, p) =>
              /\ IF Last(outcomes'[t][p]).kind \in {"exception", "empty"}
                 THEN /\ failed_requests'[p] = failed_requests[p] + 1
                      /\ total_requests'[p] = total_requests[p]
                      /\ response_times'[p] = response_times[p]
                 ELSE /\ total_requests'[p] = total_requests[p] + 1
                      /\ failed_requests'[p] = failed_requests[p]
                      /\ OneSampleMore(response_times[p], response_times'[p])
              /\ \A other \in Providers \ {p} :
                    /\ total_requests'[other] = total_requests[other]
                    /\ failed_requests'[other] = failed_requests[other]
                    /\ response_times'[other] = response_times[other]]_vars

\* the last call of a provider gave an answer that the validation rejected, and
\* it is that provider's only counted request; the other provider has failed once
C28_Witness ==
    \E t \in Threads, p \in Providers :
        /\ Calls(t, p) # <<>>
        /\ Last(Calls(t, p)).kind \in {"rejected_empty", "rejected_complex"}
        /\ total_requests[p] = 1 /\ failed_requests[p] = 0
        /\ Len(response_times[p]) = 1
        /\ \E other \in Providers \ {p} :
               failed_requests[other] = 1 /\ total_requests[other] = 0

\* C29: whatever the requests so far, the success rate of get_simple_stats is
\* between 0% and 100%: the failures it subtracts are not more than the
\* requests it divides by.
C29_SuccessRateInRange ==
    /\ get_simple_stats.success_rate \in 0..1000
    /\ get_simple_stats.total_requests > 0
          => get_simple_stats.failed_requests <= get_simple_stats.total_requests

\* C30: a message the bot receives takes at most one slot of the rate limiter;
\* and a private command from a user who has no admitted request in the
\* current window, with private messages on, a user limit of at least 1 and
\* the total limit not reached, is let through to the command and not answered
\* as rate limited.
C30_OneSlotPerMessage ==
    [][inbound'.n = inbound.n + 1 =>
          /\ inbound'.slots <= 1
          /\ ( /\ inbound'.private /\ inbound'.kind = "command"
               /\ private_msg_enabled
               /\ rate_limiter.user_limit_per_minute >= 1
               /\ AdmittedIn({inbound'.user}, now - window_size, now) = 0
               /\ AdmittedIn(Users, now - window_size, now)
                      < rate_limiter.total_limit_per_minute )
             => inbound'.outcome = "processed"]_vars
====
